---- MODULE Spec2Model ----
(***************************************************************************)
(* DialogWare: the command processor (PluginManager, DialogWareProcessor,  *)
(* CommandResult), the Pipeline, and the file executor's chained copy_to.  *)
(* Each subsystem has its own specification over the shared variables;     *)
(* the variables of the other subsystems stay at their initial values.     *)
(***************************************************************************)
EXTENDS Integers, Sequences, FiniteSets, TLC

VARIABLES
    \* PluginManager: the keys of its three registries
    parsers, translators, executors,
    \* DialogWareProcessor.history
    history,
    \* one process() call: position, arguments, locals
    pc, input_text, domain_arg, domain, parsed_data, dsl_command, exec_result,
    \* the stage calls made by the current process() call, in order
    calls,
    \* the exception raised inside the current call (None when none was)
    raised,
    \* the CommandResult returned by the last finished call (None before)
    result,
    \* Pipeline: its elements, debug flag and execution trace
    elements, debug_mode, execution_trace,
    \* one Pipeline.execute() call: position, argument, the running value, the index
    \* of the element the loop is at
    ppc, input_data, running, idx,
    \* the element calls made by the current execute() call, in order, each with
    \* the value it was handed and what came back
    invoked,
    \* what the finished execute() call gave its caller: a value or an exception
    returned, propagated,
    \* the filesystem: path -> [kind, data]; the files whose content cannot be read;
    \* whether a missing destination directory can be created
    fs, unreadable, creatable,
    \* one _chain_copy_to() call: position, arguments, loop index, the two lists
    cpc, files, destination, cidx, copied, errors,
    \* the filesystem as it was when the call started
    fs_at_call,
    \* what the finished call gave its caller: a status record or an exception
    copy_result, copy_raised,
    \* the file domain: the files of the current directory (position in FileNames ->
    \* size, age, content), the order the interpreter's string hashing gives a set of
    \* patterns, the (text, DSL) pairs the translator has emitted so far
    listing, hash_order, emitted,
    \* one command of the file domain: position, the text, the parsed intent, the
    \* DSL text, what _parse_dsl made of it, the index of the chain action the loop
    \* is at, the running result, the exception raised
    qpc, qtext, intent, qcommand, qparts, qidx, qresult, qraised,
    \* the where calls of the current command: the predicate text, the value
    \* given, the value returned
    chain_log,
    \* the calls the current command has made on the filesystem (makedirs, copy2,
    \* move), in order, each with the operation that made it
    fs_calls,
    \* SQLExecutor: the connection ("none", "open" or "closed"), the committed content of
    \* the database and the content the connection's transaction sees, last_query,
    \* last_result
    connection, committed, pending, last_query, last_result,
    \* one SQLExecutor.execute() call: position, the query, the committed content when
    \* the call started, the exception caught, whether rollback() completed, the
    \* cursor after the statement ran, the value returned, the exception that left
    \* the call
    xpc, xquery, db_at_call, caught, rolled_back, cursor, xresult, xraised,
    \* the SQL domain: the SQLSchema the parser works with, the number of calls that
    \* changed it
    schema, changes,
    \* one call of the SQL domain (a lookup, parse followed by translate): position,
    \* the call and its arguments, the query dict parse returned, the SQL text
    \* translate returned, what a lookup returned, the exception that left the call
    spc, sql_input, sql_intent, sql_query, sql_found, sql_raised

procVars == <<parsers, translators, executors, history, pc, input_text, domain_arg,
              domain, parsed_data, dsl_command, exec_result, calls, raised, result>>

pipeVars == <<elements, debug_mode, execution_trace, ppc, input_data, running, idx,
              invoked, returned, propagated>>

copyVars == <<fs, unreadable, creatable, cpc, files, destination, cidx, copied, errors,
              fs_at_call, copy_result, copy_raised>>

qryVars == <<listing, hash_order, emitted, qpc, qtext, intent, qcommand, qparts, qidx,
             qresult, qraised, chain_log, fs_calls>>

execVars == <<connection, committed, pending, last_query, last_result, xpc, xquery,
              db_at_call, caught, rolled_back, cursor, xresult, xraised>>

sqlVars == <<schema, changes, spc, sql_input, sql_intent, sql_query, sql_found, sql_raised>>

vars == <<procVars, pipeVars, copyVars, qryVars, execVars, sqlVars>>

----------------------------------------------------------------------------
(* Python values *)

None == [kind |-> "None"]

PyStr(s) == [kind |-> "str", s |-> s]

\* an exception object of class `type` (a subclass of Exception) built from `arg`
Exc(type, arg) == [kind |-> "exc", type |-> type, arg |-> arg]

\* str(e): KeyError shows the repr of its argument, the other classes the argument.
\* The registry's messages contain single quotes, so their repr is double-quoted.
ExcStr(e) == IF e.type = "KeyError" THEN "\"" \o e.arg \o "\"" ELSE e.arg

----------------------------------------------------------------------------
(* Bounds and input sets *)

MaxHistory == 2

Texts == {"znajdz wszystkie pliki PDF", "bad input"}

\* domain names that get registered
RegDomains == {"file", "sql", "default"}

\* the domain argument of process(): absent, or any name
DomainArgs == {None} \cup {PyStr(d) : d \in RegDomains \cup {"unregistered"}}

\* exceptions a plugin stage may raise
StageErrors == {Exc("ValueError", "Nieznana operacja: x"), Exc("RuntimeError", "")}

\* Pipeline: the longest pipeline, the payloads 0 .. PayloadMod-1
MaxSteps == 3

PayloadMod == 4

Payloads == 0..(PayloadMod - 1)

\* the callables wrapped into pipeline elements
StepNames == {"inc", "dbl", "even_only"}

\* File executor: the longest list of source paths handed to a chain action
MaxFiles == 3

\* source paths: two files of the same base name, a directory, a path that
\* does not exist
SourcePaths == {"in/a.txt", "tmp/a.txt", "in/docs", "in/gone"}

DestDir == "out"

----------------------------------------------------------------------------
(* CommandResult *)

\* CommandResult.__init__: a missing execution_log becomes the empty list
CommandResult(success, data, error, execution_log) ==
    [success |-> success,
     data |-> data,
     error |-> error,
     generated_code |-> None,
     execution_log |-> IF execution_log = None THEN <<>> ELSE execution_log,
     sql |-> None]

----------------------------------------------------------------------------
(* PluginManager *)

register_parser(d) ==
    /\ pc = "idle"
    /\ parsers' = parsers \cup {d}
    /\ UNCHANGED <<translators, executors, history, pc, input_text, domain_arg, domain,
                   parsed_data, dsl_command, exec_result, calls, raised, result>>

register_translator(d) ==
    /\ pc = "idle"
    /\ translators' = translators \cup {d}
    /\ UNCHANGED <<parsers, executors, history, pc, input_text, domain_arg, domain,
                   parsed_data, dsl_command, exec_result, calls, raised, result>>

register_executor(d) ==
    /\ pc = "idle"
    /\ executors' = executors \cup {d}
    /\ UNCHANGED <<parsers, translators, history, pc, input_text, domain_arg, domain,
                   parsed_data, dsl_command, exec_result, calls, raised, result>>

\* DialogWare._setup_default_plugins: each of the two plugin packages registers its
\* triad when its import succeeds and nothing when it raises ImportError
setup_default_plugins ==
    /\ pc = "idle"
    /\ parsers = {} /\ translators = {} /\ executors = {}
    /\ \E imported \in SUBSET {"file", "sql"} :
          /\ imported # {}
          /\ parsers' = imported
          /\ translators' = imported
          /\ executors' = imported
    /\ UNCHANGED <<history, pc, input_text, domain_arg, domain, parsed_data,
                   dsl_command, exec_result, calls, raised, result>>

\* get_parser / get_translator / get_executor, called in this order: the KeyError of
\* the first registry that lacks the domain, None when all three hold it
LookupError(d) ==
    IF d \notin parsers
    THEN Exc("KeyError", "Parser for domain '" \o d \o "' not registered")
    ELSE IF d \notin translators
    THEN Exc("KeyError", "Translator for domain '" \o d \o "' not registered")
    ELSE IF d \notin executors
    THEN Exc("KeyError", "Executor for domain '" \o d \o "' not registered")
    ELSE None

----------------------------------------------------------------------------
(* Plugin stages: what a parser, translator or executor hands back *)

ParseOut(d, text) == [kind |-> "intent", domain |-> d, text |-> text]

TranslateOut(d, parsed) == [kind |-> "query", domain |-> d, of |-> parsed]

ExecuteOut(d, dsl) == [kind |-> "list", domain |-> d, of |-> dsl]

----------------------------------------------------------------------------
(* DialogWareProcessor.process *)

ResolveDomainGuessesFile(arg) == IF arg = None THEN "file" ELSE arg.s

\* the domain process() works with: "default" when the caller gave none
ResolveDomain(arg) == IF arg = None THEN "default" ELSE arg.s

\* entry: the command is appended to the history and the domain resolved
ProcessCall(text, arg) ==
    /\ pc = "idle"
    /\ Len(history) < MaxHistory
    /\ history' = Append(history, text)
    /\ input_text' = text
    /\ domain_arg' = arg
    /\ domain' = ResolveDomain(arg)
    /\ parsed_data' = None
    /\ dsl_command' = None
    /\ exec_result' = None
    /\ calls' = <<>>
    /\ raised' = None
    /\ result' = None
    /\ pc' = "lookup"
    /\ UNCHANGED <<parsers, translators, executors>>

\* where control goes when `e` is raised inside the try block
OnException(e) ==
    /\ raised' = e
    /\ pc' = "except"

ProcessLookupOutsideTry ==
    /\ pc = "lookup"
    /\ IF LookupError(domain) # None
       THEN /\ raised' = LookupError(domain)
            /\ pc' = "escaped"
       ELSE /\ pc' = "parse"
            /\ UNCHANGED raised
    /\ UNCHANGED <<parsers, translators, executors, history, input_text, domain_arg,
                   domain, parsed_data, dsl_command, exec_result, calls, result>>

\* the three registry lookups, inside the try block
ProcessLookup ==
    /\ pc = "lookup"
    /\ IF LookupError(domain) # None
       THEN OnException(LookupError(domain))
       ELSE /\ pc' = "parse"
            /\ UNCHANGED raised
    /\ UNCHANGED <<parsers, translators, executors, history, input_text, domain_arg,
                   domain, parsed_data, dsl_command, exec_result, calls, result>>

ProcessParseRetries ==
    /\ pc = "parse"
    /\ calls' = Append(calls, "parsing")
    /\ \/ /\ parsed_data' = ParseOut(domain, input_text)
          /\ pc' = "translate"
          /\ UNCHANGED raised
       \/ /\ \E e \in StageErrors : raised' = e
          /\ pc' = IF raised = None THEN "parse" ELSE "except"
          /\ UNCHANGED parsed_data
    /\ UNCHANGED <<parsers, translators, executors, history, input_text, domain_arg,
                   domain, dsl_command, exec_result, result>>

\* parsed_data = parser.parse(input_text)
ProcessParse ==
    /\ pc = "parse"
    /\ calls' = Append(calls, "parsing")
    /\ \/ /\ parsed_data' = ParseOut(domain, input_text)
          /\ pc' = "translate"
          /\ UNCHANGED raised
       \/ /\ \E e \in StageErrors : OnException(e)
          /\ UNCHANGED parsed_data
    /\ UNCHANGED <<parsers, translators, executors, history, input_text, domain_arg,
                   domain, dsl_command, exec_result, result>>

\* dsl_command = translator.translate(parsed_data)
ProcessTranslate ==
    /\ pc = "translate"
    /\ calls' = Append(calls, "translation")
    /\ \/ /\ dsl_command' = TranslateOut(domain, parsed_data)
          /\ pc' = "execute"
          /\ UNCHANGED raised
       \/ /\ \E e \in StageErrors : OnException(e)
          /\ UNCHANGED dsl_command
    /\ UNCHANGED <<parsers, translators, executors, history, input_text, domain_arg,
                   domain, parsed_data, exec_result, result>>

\* result = executor.execute(dsl_command)
ProcessExecute ==
    /\ pc = "execute"
    /\ calls' = Append(calls, "execution")
    /\ \/ /\ exec_result' = ExecuteOut(domain, dsl_command)
          /\ pc' = "return"
          /\ UNCHANGED raised
       \/ /\ \E e \in StageErrors : OnException(e)
          /\ UNCHANGED exec_result
    /\ UNCHANGED <<parsers, translators, executors, history, input_text, domain_arg,
                   domain, parsed_data, dsl_command, result>>

\* the CommandResult of the success path, with its three-record execution log
SuccessResult ==
    CommandResult(TRUE, exec_result, None,
        << [stage |-> "parsing", input |-> PyStr(input_text), output |-> parsed_data],
           [stage |-> "translation", input |-> parsed_data, output |-> dsl_command],
           [stage |-> "execution", input |-> dsl_command, output |-> exec_result] >>)

FailureResultKeepsData(e) == CommandResult(FALSE, parsed_data, PyStr(ExcStr(e)), None)

\* the CommandResult of the except branch
FailureResult(e) == CommandResult(FALSE, None, PyStr(ExcStr(e)), None)

ProcessReturn ==
    /\ pc = "return"
    /\ result' = SuccessResult
    /\ pc' = "done"
    /\ UNCHANGED <<parsers, translators, executors, history, input_text, domain_arg,
                   domain, parsed_data, dsl_command, exec_result, calls, raised>>

ProcessExcept ==
    /\ pc = "except"
    /\ result' = FailureResult(raised)
    /\ pc' = "done"
    /\ UNCHANGED <<parsers, translators, executors, history, input_text, domain_arg,
                   domain, parsed_data, dsl_command, exec_result, calls, raised>>

\* the caller has the CommandResult (or, at "escaped", the exception); the call's
\* locals are gone
ProcessExit ==
    /\ pc \in {"done", "escaped"}
    /\ pc' = "idle"
    /\ input_text' = ""
    /\ domain_arg' = None
    /\ domain' = ""
    /\ parsed_data' = None
    /\ dsl_command' = None
    /\ exec_result' = None
    /\ calls' = <<>>
    /\ raised' = None
    /\ result' = None
    /\ UNCHANGED <<parsers, translators, executors, history>>

----------------------------------------------------------------------------
(* The command processor's specification *)

ProcInit ==
    /\ parsers = {} /\ translators = {} /\ executors = {}
    /\ history = <<>>
    /\ pc = "idle"
    /\ input_text = ""
    /\ domain_arg = None
    /\ domain = ""
    /\ parsed_data = None /\ dsl_command = None /\ exec_result = None
    /\ calls = <<>>
    /\ raised = None
    /\ result = None

ProcNext ==
    \/ setup_default_plugins /\ UNCHANGED <<pipeVars, copyVars, qryVars, execVars, sqlVars>>
    \/ \E d \in RegDomains : register_parser(d) /\ UNCHANGED <<pipeVars, copyVars, qryVars, execVars, sqlVars>>
    \/ \E d \in RegDomains : register_translator(d) /\ UNCHANGED <<pipeVars, copyVars, qryVars, execVars, sqlVars>>
    \/ \E d \in RegDomains : register_executor(d) /\ UNCHANGED <<pipeVars, copyVars, qryVars, execVars, sqlVars>>
    \/ \E text \in Texts, arg \in DomainArgs :
          ProcessCall(text, arg) /\ UNCHANGED <<pipeVars, copyVars, qryVars, execVars, sqlVars>>
    \/ ProcessLookup /\ UNCHANGED <<pipeVars, copyVars, qryVars, execVars, sqlVars>>
    \/ ProcessParse /\ UNCHANGED <<pipeVars, copyVars, qryVars, execVars, sqlVars>>
    \/ ProcessTranslate /\ UNCHANGED <<pipeVars, copyVars, qryVars, execVars, sqlVars>>
    \/ ProcessExecute /\ UNCHANGED <<pipeVars, copyVars, qryVars, execVars, sqlVars>>
    \/ ProcessReturn /\ UNCHANGED <<pipeVars, copyVars, qryVars, execVars, sqlVars>>
    \/ ProcessExcept /\ UNCHANGED <<pipeVars, copyVars, qryVars, execVars, sqlVars>>
    \/ ProcessExit /\ UNCHANGED <<pipeVars, copyVars, qryVars, execVars, sqlVars>>

----------------------------------------------------------------------------
(* PipelineElement: the wrapped callables *)

\* whether the callable raises on x
StepRaises(step, x) == step = "even_only" /\ x % 2 = 1

\* the exception it raises
StepError(step, x) == Exc("ValueError", "odd payload")

\* the value it returns on x
StepValue(step, x) ==
    CASE step = "inc" -> (x + 1) % PayloadMod
      [] step = "dbl" -> (2 * x) % PayloadMod
      [] OTHER -> x

\* PipelineElement.name
ElementName(step) == step

----------------------------------------------------------------------------
(* Pipeline *)

PipeInit ==
    /\ elements = <<>>
    /\ debug_mode = FALSE
    /\ execution_trace = <<>>
    /\ ppc = "idle"
    /\ input_data = None
    /\ running = None
    /\ idx = 0
    /\ invoked = <<>>
    /\ returned = None
    /\ propagated = None

add(element) ==
    /\ ppc = "idle"
    /\ Len(elements) < MaxSteps
    /\ elements' = Append(elements, element)
    /\ UNCHANGED <<debug_mode, execution_trace, ppc, input_data, running, idx, invoked,
                   returned, propagated>>

enable_debug(enabled) ==
    /\ ppc = "idle"
    /\ debug_mode' = enabled
    /\ UNCHANGED <<elements, execution_trace, ppc, input_data, running, idx, invoked,
                   returned, propagated>>

ExecuteCallKeepsTrace(x) ==
    /\ ppc = "idle"
    /\ input_data' = x
    /\ running' = x
    /\ idx' = 1
    /\ invoked' = <<>>
    /\ returned' = None
    /\ propagated' = None
    /\ ppc' = "loop"
    /\ UNCHANGED <<elements, debug_mode, execution_trace>>

\* entry of execute: result = input_data, the trace is cleared
ExecuteCall(x) ==
    /\ ppc = "idle"
    /\ input_data' = x
    /\ running' = x
    /\ execution_trace' = <<>>
    /\ idx' = 1
    /\ invoked' = <<>>
    /\ returned' = None
    /\ propagated' = None
    /\ ppc' = "loop"
    /\ UNCHANGED <<elements, debug_mode>>

\* the trace record of an element that returned
SuccessRecord(element, out) ==
    [element |-> ElementName(element), input |-> input_data, output |-> out,
     status |-> "success"]

\* the trace record of an element that raised e
ErrorRecord(element, e) ==
    [element |-> ElementName(element), input |-> input_data,
     error |-> PyStr(ExcStr(e)), status |-> "error"]

\* the value the loop hands to the element it is at
ElementArgumentIsInput == input_data

ElementArgument == running

\* one iteration of the loop over self.elements
ExecuteStep ==
    /\ ppc = "loop"
    /\ idx <= Len(elements)
    /\ LET element == elements[idx]
           arg == ElementArgument
       IN IF StepRaises(element, arg)
          THEN /\ invoked' = Append(invoked,
                      [pos |-> idx, element |-> element, arg |-> arg, raised |-> TRUE,
                       out |-> None])
               /\ execution_trace' =
                      IF debug_mode
                      THEN Append(execution_trace, ErrorRecord(element, StepError(element, arg)))
                      ELSE execution_trace
               /\ propagated' = StepError(element, arg)
               /\ ppc' = "raised"
               /\ UNCHANGED <<running, idx>>
          ELSE /\ invoked' = Append(invoked,
                      [pos |-> idx, element |-> element, arg |-> arg, raised |-> FALSE,
                       out |-> StepValue(element, arg)])
               /\ running' = StepValue(element, arg)
               /\ execution_trace' =
                      IF debug_mode
                      THEN Append(execution_trace,
                                  SuccessRecord(element, StepValue(element, arg)))
                      ELSE execution_trace
               /\ idx' = idx + 1
               /\ UNCHANGED <<propagated, ppc>>
    /\ UNCHANGED <<elements, debug_mode, input_data, returned>>

\* return result, after the last element
ExecuteReturn ==
    /\ ppc = "loop"
    /\ idx > Len(elements)
    /\ returned' = running
    /\ ppc' = "returned"
    /\ UNCHANGED <<elements, debug_mode, execution_trace, input_data, running, idx,
                   invoked, propagated>>

\* the caller has the value or the exception; the call's locals are gone, the
\* pipeline keeps its trace
ExecuteExit ==
    /\ ppc \in {"returned", "raised"}
    /\ ppc' = "idle"
    /\ input_data' = None
    /\ running' = None
    /\ idx' = 0
    /\ invoked' = <<>>
    /\ returned' = None
    /\ propagated' = None
    /\ UNCHANGED <<elements, debug_mode, execution_trace>>

PipeNext ==
    \/ \E step \in StepNames : add(step) /\ UNCHANGED <<procVars, copyVars, qryVars, execVars, sqlVars>>
    \/ \E b \in BOOLEAN : enable_debug(b) /\ UNCHANGED <<procVars, copyVars, qryVars, execVars, sqlVars>>
    \/ \E x \in Payloads : ExecuteCall(x) /\ UNCHANGED <<procVars, copyVars, qryVars, execVars, sqlVars>>
    \/ ExecuteStep /\ UNCHANGED <<procVars, copyVars, qryVars, execVars, sqlVars>>
    \/ ExecuteReturn /\ UNCHANGED <<procVars, copyVars, qryVars, execVars, sqlVars>>
    \/ ExecuteExit /\ UNCHANGED <<procVars, copyVars, qryVars, execVars, sqlVars>>

----------------------------------------------------------------------------
(* The filesystem under the file executor *)

Absent == [kind |-> "absent", data |-> ""]

\* os.path.basename
Basename(path) ==
    CASE path = "in/a.txt" -> "a.txt"
      [] path = "tmp/a.txt" -> "a.txt"
      [] path = "in/docs" -> "docs"
      [] path = "in/gone" -> "gone"
      [] OTHER -> path

\* os.path.join
Join(dir, name) == dir \o "/" \o name

DestPaths == {Join(DestDir, Basename(src)) : src \in SourcePaths}

AllPaths == SourcePaths \cup {DestDir} \cup DestPaths

\* the sources as they lie on disk
SourceEntry(path) ==
    CASE path = "in/a.txt" -> [kind |-> "file", data |-> "in/a.txt"]
      [] path = "tmp/a.txt" -> [kind |-> "file", data |-> "tmp/a.txt"]
      [] path = "in/docs" -> [kind |-> "dir", data |-> "in/docs"]
      [] OTHER -> Absent

\* what may already lie in the destination
OldEntry(path) ==
    CASE path = "out/a.txt" -> [kind |-> "file", data |-> "old"]
      [] path = "out/docs" -> [kind |-> "dir", data |-> "old"]
      [] OTHER -> Absent

\* the filesystems a call may find: the destination absent, a regular file, or a
\* directory holding any of the old entries
InitialFilesystems ==
    { [p \in AllPaths |->
          IF p \in SourcePaths THEN SourceEntry(p)
          ELSE IF p = DestDir THEN [kind |-> dk, data |-> ""]
          ELSE IF dk = "dir" /\ p \in old THEN OldEntry(p)
          ELSE Absent]
      : dk \in {"absent", "file", "dir"}, old \in SUBSET {"out/a.txt", "out/docs"} }

\* os.path.exists / os.path.isdir
Exists(f, path) == f[path].kind # "absent"

IsDir(f, path) == f[path].kind = "dir"

----------------------------------------------------------------------------
(* FileOperationExecutor._chain_copy_to *)

\* the executor before any call, whatever the filesystem
CopyIdle ==
    /\ cpc = "idle"
    /\ files = <<>>
    /\ destination = ""
    /\ cidx = 0
    /\ copied = <<>>
    /\ errors = <<>>
    /\ fs_at_call = fs
    /\ copy_result = None
    /\ copy_raised = None

CopyInit ==
    /\ fs \in InitialFilesystems
    /\ unreadable \in SUBSET {"in/a.txt", "tmp/a.txt"}
    /\ creatable \in BOOLEAN
    /\ CopyIdle

\* the filesystem left alone: no destination yet, everything readable
CopyUnused ==
    /\ fs = [p \in AllPaths |-> IF p \in SourcePaths THEN SourceEntry(p) ELSE Absent]
    /\ unreadable = {}
    /\ creatable = TRUE
    /\ CopyIdle

\* shutil.copytree / shutil.copy2 of source to dest_path on filesystem f: the
\* exception it raises, None when it copies
CopyFailure(f, source, dest_path) ==
    IF IsDir(f, source)
    THEN IF f[destination].kind # "dir" THEN Exc("NotADirectoryError", dest_path)
         ELSE IF Exists(f, dest_path) THEN Exc("FileExistsError", dest_path)
         ELSE None
    ELSE IF ~Exists(f, source) THEN Exc("FileNotFoundError", source)
         ELSE IF source \in unreadable THEN Exc("PermissionError", source)
         ELSE IF f[destination].kind # "dir" THEN Exc("NotADirectoryError", dest_path)
         ELSE None

\* the filesystem after a copy that did not raise: copy2 into an existing
\* directory puts the file inside it, otherwise dest_path becomes the copy
AfterCopy(f, source, dest_path) ==
    IF ~IsDir(f, source) /\ IsDir(f, dest_path)
    THEN f
    ELSE [f EXCEPT ![dest_path] = f[source]]

\* entry: the destination directory is created when it does not exist
CopyCall(fileList, dest) ==
    /\ cpc = "idle"
    /\ files' = fileList
    /\ destination' = dest
    /\ fs_at_call' = fs
    /\ copied' = <<>>
    /\ errors' = <<>>
    /\ copy_result' = None
    /\ IF Exists(fs, dest)
       THEN /\ cpc' = "loop"
            /\ cidx' = 1
            /\ UNCHANGED <<fs, copy_raised>>
       ELSE IF creatable
       THEN /\ fs' = [fs EXCEPT ![dest] = [kind |-> "dir", data |-> ""]]
            /\ cpc' = "loop"
            /\ cidx' = 1
            /\ UNCHANGED copy_raised
       ELSE /\ copy_raised' = Exc("PermissionError", dest)
            /\ cpc' = "raised"
            /\ cidx' = 0
            /\ UNCHANGED fs
    /\ UNCHANGED <<unreadable, creatable>>

CopyOneStopsAtError ==
    /\ cpc = "loop"
    /\ cidx <= Len(files)
    /\ LET source == files[cidx]
           dest_path == Join(destination, Basename(source))
           e == CopyFailure(fs, source, dest_path)
       IN IF e = None
          THEN /\ fs' = AfterCopy(fs, source, dest_path)
               /\ copied' = Append(copied, [source |-> source, destination |-> dest_path])
               /\ cidx' = cidx + 1
               /\ UNCHANGED errors
          ELSE /\ errors' = Append(errors, [source |-> source, error |-> PyStr(ExcStr(e))])
               /\ cidx' = Len(files) + 1
               /\ UNCHANGED <<fs, copied>>
    /\ UNCHANGED <<unreadable, creatable, cpc, files, destination, fs_at_call,
                   copy_result, copy_raised>>

\* one iteration of the loop over files: the copy, or the error it raised
CopyOne ==
    /\ cpc = "loop"
    /\ cidx <= Len(files)
    /\ LET source == files[cidx]
           dest_path == Join(destination, Basename(source))
           e == CopyFailure(fs, source, dest_path)
       IN IF e = None
          THEN /\ fs' = AfterCopy(fs, source, dest_path)
               /\ copied' = Append(copied, [source |-> source, destination |-> dest_path])
               /\ UNCHANGED errors
          ELSE /\ errors' = Append(errors, [source |-> source, error |-> PyStr(ExcStr(e))])
               /\ UNCHANGED <<fs, copied>>
    /\ cidx' = cidx + 1
    /\ UNCHANGED <<unreadable, creatable, cpc, files, destination, fs_at_call,
                   copy_result, copy_raised>>

\* the status record
CopyStatus ==
    [status |-> IF errors = <<>> THEN "success" ELSE "partial",
     copied |-> copied,
     errors |-> errors,
     count |-> Len(copied)]

CopyReturn ==
    /\ cpc = "loop"
    /\ cidx > Len(files)
    /\ copy_result' = CopyStatus
    /\ cpc' = "returned"
    /\ UNCHANGED <<fs, unreadable, creatable, files, destination, cidx, copied, errors,
                   fs_at_call, copy_raised>>

\* the caller has the record or the exception; the call's locals are gone, the
\* filesystem stays as the call left it
CopyExit ==
    /\ cpc \in {"returned", "raised"}
    /\ cpc' = "idle"
    /\ files' = <<>>
    /\ destination' = ""
    /\ cidx' = 0
    /\ copied' = <<>>
    /\ errors' = <<>>
    /\ fs_at_call' = fs
    /\ copy_result' = None
    /\ copy_raised' = None
    /\ UNCHANGED <<fs, unreadable, creatable>>

\* the lists of at most MaxFiles source paths
FileLists == UNION { [1..n -> SourcePaths] : n \in 0..MaxFiles }

CopyNext ==
    \/ \E fileList \in FileLists :
          CopyCall(fileList, DestDir) /\ UNCHANGED <<procVars, pipeVars, qryVars, execVars, sqlVars>>
    \/ CopyOne /\ UNCHANGED <<procVars, pipeVars, qryVars, execVars, sqlVars>>
    \/ CopyReturn /\ UNCHANGED <<procVars, pipeVars, qryVars, execVars, sqlVars>>
    \/ CopyExit /\ UNCHANGED <<procVars, pipeVars, qryVars, execVars, sqlVars>>

----------------------------------------------------------------------------
(* Text of the file domain *)

\* A text is the sequence of its lexemes: a maximal run of word characters (\w+)
\* is one lexeme, every other character is a lexeme of its own.
Special == {"(", ")", "[", "]", ".", ",", " ", "\"", "'", "=", "*", "?", ">", "<", "!", "/", "-"}

IsWord(x) == x \notin Special

\* the largest number a numeral of the model stands for
MaxNumeral == 200

\* str.isdigit / the \d+ of the patterns: the lexeme is a decimal numeral
IsNumeral(x) == \E n \in 0..MaxNumeral : ToString(n) = x

\* int(x) of a numeral
IntOf(x) == CHOOSE n \in 0..MaxNumeral : ToString(n) = x

Least(S) == CHOOSE i \in S : \A j \in S : i <= j

Greatest(S) == CHOOSE i \in S : \A j \in S : j <= i

\* the first position at or after from where lexeme x stands, 0 when there is none
FirstAt(s, from, x) ==
    LET at == {i \in from..Len(s) : s[i] = x}
    IN IF at = {} THEN 0 ELSE Least(at)

RECURSIVE SplitAt(_, _)
\* str.split(sep): the pieces between the occurrences of sep, empty ones kept
SplitAt(s, sep) ==
    LET i == FirstAt(s, 1, sep)
    IN IF i = 0 THEN <<s>>
       ELSE <<SubSeq(s, 1, i - 1)>> \o SplitAt(SubSeq(s, i + 1, Len(s)), sep)

\* str.split(): the pieces between runs of blanks
SplitBlank(s) == SelectSeq(SplitAt(s, " "), LAMBDA p : p # <<>>)

\* str.strip(chars)
Strip(s, chars) ==
    LET keep == {i \in 1..Len(s) : s[i] \notin chars}
    IN IF keep = {} THEN <<>> ELSE SubSeq(s, Least(keep), Greatest(keep))

\* whether the lexemes of piece stand in s from position i on
StandsAt(s, i, piece) ==
    /\ i + Len(piece) - 1 <= Len(s)
    /\ \A k \in 1..Len(piece) : s[i + k - 1] = piece[k]

\* piece in s
Contains(s, piece) == \E i \in 1..Len(s) : StandsAt(s, i, piece)

RECURSIVE JoinWith(_, _)
\* sep.join(pieces)
JoinWith(pieces, sep) ==
    IF pieces = <<>> THEN <<>>
    ELSE IF Len(pieces) = 1 THEN pieces[1]
    ELSE pieces[1] \o sep \o JoinWith(Tail(pieces), sep)

\* Python values of the file domain: a str, a list of str
StrVal(s) == [kind |-> "str", s |-> s]

ListVal(items) == [kind |-> "list", items |-> items]

----------------------------------------------------------------------------
(* FileOperationExecutor: reading the DSL *)

\* re.search(r'name=\[(.*?)\]'): what stands between the brackets, as the list
\* [p.strip(' "\'') for p in group.split(",")]; the empty list without a match
BracketList(s, name) ==
    LET starts == {i \in 1..Len(s) : /\ StandsAt(s, i, <<name, "=", "[">>)
                                     /\ FirstAt(s, i + 3, "]") # 0}
    IN IF starts = {} THEN <<>>
       ELSE LET i == Least(starts)
                j == FirstAt(s, i + 3, "]")
                pieces == SplitAt(SubSeq(s, i + 3, j - 1), ",")
            IN [k \in 1..Len(pieces) |-> Strip(pieces[k], {" ", "\"", "'"})]

ConditionOperators == {<<">">>, <<"<">>, <<"=", "=">>, <<"!", "=">>, <<">", "=">>, <<"<", "=">>}

\* re.match(r"(\w+)\('(.*?)'\)"): the position of the closing quote, 0 without a match
FuncMatchEnd(s) ==
    IF Len(s) >= 3 /\ IsWord(s[1]) /\ s[2] = "(" /\ s[3] = "'"
    THEN LET ends == {j \in 4..(Len(s) - 1) : s[j] = "'" /\ s[j + 1] = ")"}
         IN IF ends = {} THEN 0 ELSE Least(ends)
    ELSE 0

\* _parse_params: the list of parameters written in params_str
parse_params(params_str) ==
    IF Strip(params_str, {" "}) = <<>> THEN <<>>
    ELSE IF params_str[1] = "\"" /\ params_str[Len(params_str)] = "\""
    THEN <<StrVal(SubSeq(params_str, 2, Len(params_str) - 1))>>
    ELSE IF Contains(params_str, <<"paths", "=">>) \/ Contains(params_str, <<"patterns", "=">>)
    THEN <<ListVal(BracketList(params_str, "paths")),
           ListVal(BracketList(params_str, "patterns"))>>
    ELSE LET parts == SplitBlank(params_str)
         IN IF /\ Contains(params_str, <<" ">>)
               /\ Len(parts) >= 3
               /\ parts[2] \in ConditionOperators
            THEN [k \in 1..Len(parts) |-> StrVal(parts[k])]
            ELSE IF FuncMatchEnd(params_str) # 0
            THEN <<StrVal(<<params_str[1]>>),
                   StrVal(SubSeq(params_str, 4, FuncMatchEnd(params_str) - 1))>>
            ELSE <<StrVal(params_str)>>

RECURSIVE ChainActionsFrom(_, _)
\* re.finditer(r'\.(\w+)\((.*?)\)') from position from on: one record per match
ChainActionsFrom(command, from) ==
    LET starts == {i \in from..(Len(command) - 3) :
                      /\ command[i] = "."
                      /\ IsWord(command[i + 1])
                      /\ command[i + 2] = "("
                      /\ FirstAt(command, i + 3, ")") # 0}
    IN IF starts = {} THEN <<>>
       ELSE LET i == Least(starts)
                j == FirstAt(command, i + 3, ")")
            IN <<[action |-> command[i + 1],
                  text |-> SubSeq(command, i + 3, j - 1),
                  params |-> parse_params(SubSeq(command, i + 3, j - 1))]>>
               \o ChainActionsFrom(command, j + 1)

\* re.match(r'(\w+)\(') fails: _parse_dsl raises ValueError
DslSyntaxError(command) ==
    ~(Len(command) >= 2 /\ IsWord(command[1]) /\ command[2] = "(")

\* _parse_dsl of a command it accepts; params is missing when no ")" follows the
\* first "("
parse_dsl(command) ==
    LET i == FirstAt(command, 1, "(")
        j == FirstAt(command, i + 1, ")")
    IN [operation |-> command[1],
        has_params |-> j # 0,
        params |-> IF j # 0 THEN parse_params(SubSeq(command, i + 1, j - 1)) ELSE <<>>,
        chain_actions |-> ChainActionsFrom(command, 1)]

----------------------------------------------------------------------------
(* FileOperationParser *)

\* str.lower() of a lexeme (the upper-case words of the model's texts)
LowerLexeme(x) ==
    CASE x = "CSV" -> "csv"
      [] x = "TXT" -> "txt"
      [] OTHER -> x

\* str.lower()
Lower(s) == [i \in 1..Len(s) |-> LowerLexeme(s[i])]

\* self.commands, in the order of the dict
FileCommands ==
    << [operation |-> "find",
        keywords |-> {"znajdz", "szukaj", "wyszukaj", "find", "search", "locate"}],
       [operation |-> "list",
        keywords |-> {"listuj", "wyswietl", "pokaz", "list", "show", "display"}],
       [operation |-> "create",
        keywords |-> {"utworz", "stworz", "nowy", "create", "new", "make"}],
       [operation |-> "delete",
        keywords |-> {"usun", "skasuj", "wymaz", "delete", "remove", "erase"}],
       [operation |-> "copy", keywords |-> {"kopiuj", "skopiuj", "copy", "duplicate"}],
       [operation |-> "move", keywords |-> {"przenies", "move", "rename"}],
       [operation |-> "modify",
        keywords |-> {"zmodyfikuj", "edytuj", "modify", "edit", "change"}] >>

\* _detect_operation: the first command one of whose keywords is a word of the text
detect_operation(text) ==
    LET words == {SplitBlank(text)[k] : k \in 1..Len(SplitBlank(text))}
        hits == {c \in 1..Len(FileCommands) :
                    \E kw \in FileCommands[c].keywords : <<kw>> \in words}
    IN IF hits = {} THEN "find" ELSE FileCommands[Least(hits)].operation

\* self.file_types: the patterns a keyword stands for
FileTypes ==
    { [patterns |-> {<<"*", ".", "txt">>},
       keywords |-> {"txt", "tekst", "text", "tekstowy", "tekstowe"}],
      [patterns |-> {<<"*", ".", "csv">>}, keywords |-> {"csv", "dane", "data", "values"}],
      [patterns |-> {<<"*", ".", "json">>}, keywords |-> {"json", "jason"}],
      [patterns |-> {<<"*", ".", "xml">>}, keywords |-> {"xml"}],
      [patterns |-> {<<"*", ".", "html">>}, keywords |-> {"html", "htm", "strona", "page"}],
      [patterns |-> {<<"*", ".", "pdf">>}, keywords |-> {"pdf", "dokument", "document"}],
      [patterns |-> {<<"*", ".", "jpg">>, <<"*", ".", "jpeg">>, <<"*", ".", "png">>,
                     <<"*", ".", "gif">>},
       keywords |-> {"obraz", "zdjecie", "photo", "image", "img", "jpg", "jpeg", "png",
                     "gif"}],
      [patterns |-> {<<"*", ".", "mp4">>, <<"*", ".", "avi">>, <<"*", ".", "mkv">>},
       keywords |-> {"wideo", "video", "film", "movie", "mp4", "avi"}],
      [patterns |-> {<<"*", ".", "mp3">>, <<"*", ".", "wav">>, <<"*", ".", "ogg">>},
       keywords |-> {"audio", "dzwiek", "sound", "mp3", "wav"}],
      [patterns |-> {<<"*", ".", "doc">>}, keywords |-> {"doc", "docx", "word"}],
      [patterns |-> {<<"*", ".", "xls">>},
       keywords |-> {"xls", "xlsx", "excel", "arkusz", "spreadsheet"}],
      [patterns |-> {<<"*", ".", "ppt">>},
       keywords |-> {"ppt", "pptx", "powerpoint", "prezentacja", "presentation"}] }

\* the keywords that stand inside a longer word of the model's texts
InnerKeywords == {<<"tekst", "tekstowe">>, <<"tekst", "tekstowy">>, <<"doc", "docx">>,
                  <<"xls", "xlsx">>, <<"ppt", "pptx">>, <<"htm", "html">>}

\* keyword in text: the keyword is a word of the text or stands inside one
KeywordIn(keyword, text) ==
    \E i \in 1..Len(text) : text[i] = keyword \/ <<keyword, text[i]>> \in InnerKeywords

RECURSIVE QuotedFrom(_, _)
\* re.finditer(r'"([^"]+)"|\'([^\']+)\''), from position from on: the quoted pieces
QuotedFrom(text, from) ==
    LET starts == {i \in from..Len(text) :
                      /\ text[i] \in {"\"", "'"}
                      /\ FirstAt(text, i + 1, text[i]) > i + 1}
    IN IF starts = {} THEN <<>>
       ELSE LET i == Least(starts)
                j == FirstAt(text, i + 1, text[i])
            IN <<SubSeq(text, i + 1, j - 1)>> \o QuotedFrom(text, j + 1)

IsPattern(piece) == \E i \in 1..Len(piece) : piece[i] \in {"*", "?"}

\* _detect_paths_and_patterns: the paths, in the order of the text
detect_paths(text) == SelectSeq(QuotedFrom(text, 1), LAMBDA p : ~IsPattern(p))

\* _detect_paths_and_patterns: the patterns, as the set that set(patterns) holds
detect_patterns(text) ==
    LET quoted == QuotedFrom(text, 1)
    IN {quoted[k] : k \in {k \in 1..Len(quoted) : IsPattern(quoted[k])}}
       \cup UNION {t.patterns : t \in {t \in FileTypes :
                                          \E kw \in t.keywords : KeywordIn(kw, text)}}
       \cup {SubSeq(text, i, i + 2) : i \in {i \in 1..(Len(text) - 2) :
                /\ text[i] = "*" /\ text[i + 1] = "." /\ IsWord(text[i + 2])}}

\* list(set(patterns)): the elements in the order the process's string hashing
\* gives them
ListOfSet(S, order) == SelectSeq(order, LAMBDA p : p \in S)

\* the sequence of f[i] for the i of the set S in increasing order
RECURSIVE InOrder(_, _)
InOrder(S, f) ==
    IF S = {} THEN <<>>
    ELSE <<f[Least(S)]>> \o InOrder(S \ {Least(S)}, f)

LargerWords == {"wieksze", "wiekszy", "wieksza", "wiekszych", "larger", "bigger", ">"}

SmallerWords == {"mniejsze", "mniejszy", "mniejsza", "mniejszych", "smaller", "<"}

\* self.size_units
SizeUnit(u) ==
    CASE u = "b" -> 1
      [] u = "kb" -> 1024
      [] u = "mb" -> 1024 * 1024

SizeUnits == {"b", "kb", "mb"}

\* the position after an optional "niz " / "than " at position i
SkipThan(text, i) ==
    IF i + 1 <= Len(text) /\ text[i] \in {"niz", "than"} /\ text[i + 1] = " "
    THEN i + 2 ELSE i

\* the position after the blanks from position i on
SkipBlanks(text, i) ==
    LET rest == {k \in i..Len(text) : text[k] # " "}
    IN IF rest = {} THEN Len(text) + 1 ELSE Least(rest)

\* a number \d+(?:\.\d+)? at position i of the text: its value in tenths and the
\* position after it (fractions of one digit)
NumberAt(text, i) ==
    IF i + 2 <= Len(text) /\ text[i + 1] = "." /\ IsNumeral(text[i + 2])
          /\ IntOf(text[i + 2]) < 10
    THEN [tenths |-> IntOf(text[i]) * 10 + IntOf(text[i + 2]), next |-> i + 3]
    ELSE [tenths |-> IntOf(text[i]) * 10, next |-> i + 1]

\* the size filter that the pattern matches at position i, None when it does not:
\* comparison word, blank, optional "niz "/"than ", number, blanks, unit
SizeFilterAt(text, i) ==
    IF /\ \/ text[i] \in LargerWords \cup SmallerWords
          \/ StandsAt(text, i, <<"less", " ", "than", " ">>)
       /\ i + 1 <= Len(text) /\ text[i + 1] = " "
       /\ SkipThan(text, i + 2) <= Len(text)
       /\ IsNumeral(text[SkipThan(text, i + 2)])
    THEN LET num == NumberAt(text, SkipThan(text, i + 2))
             u == SkipBlanks(text, num.next)
         IN IF u <= Len(text) /\ text[u] \in SizeUnits
            THEN [type |-> "size",
                  operator |-> IF text[i] \in LargerWords THEN <<">">> ELSE <<"<">>,
                  value |-> num.tenths * SizeUnit(text[u])]
            ELSE None
    ELSE None

\* _detect_size_filters
detect_size_filters(text) ==
    InOrder({i \in 1..Len(text) : SizeFilterAt(text, i) # None},
            [i \in 1..Len(text) |-> SizeFilterAt(text, i)])

NewerWords == {"nowsze", "nowszy", "nowsza", "nowszych", "newer"}

OlderWords == {"starsze", "starszy", "starsza", "starszych", "older"}

\* time_patterns, in the order of the list: the unit words, the unit and the
\* operator each pattern yields
TimePatterns ==
    << [words |-> NewerWords, units |-> {"dni", "day", "days"},
        unit |-> "days", operator |-> <<">">>],
       [words |-> OlderWords, units |-> {"dni", "day", "days"},
        unit |-> "days", operator |-> <<"<">>],
       [words |-> NewerWords, units |-> {"tygodni", "tydzien", "tygodnie", "week", "weeks"},
        unit |-> "weeks", operator |-> <<">">>],
       [words |-> OlderWords, units |-> {"tygodni", "tydzien", "tygodnie", "week", "weeks"},
        unit |-> "weeks", operator |-> <<"<">>],
       [words |-> NewerWords, units |-> {"miesiecy", "miesiac", "miesiace", "month", "months"},
        unit |-> "months", operator |-> <<">">>],
       [words |-> OlderWords, units |-> {"miesiecy", "miesiac", "miesiace", "month", "months"},
        unit |-> "months", operator |-> <<"<">>],
       [words |-> NewerWords, units |-> {"lat", "rok", "lata", "year", "years"},
        unit |-> "years", operator |-> <<">">>],
       [words |-> OlderWords, units |-> {"lat", "rok", "lata", "year", "years"},
        unit |-> "years", operator |-> <<"<">>] >>

\* the date filter that time pattern p matches at position i, None when it does
\* not: comparison word, blank, optional "niz "/"than ", number, blank, unit word
DateFilterAt(text, p, i) ==
    LET n == SkipThan(text, i + 2)
    IN IF /\ text[i] \in p.words
          /\ n + 2 <= Len(text)
          /\ text[i + 1] = " "
          /\ IsNumeral(text[n])
          /\ text[n + 1] = " "
          /\ text[n + 2] \in p.units
       THEN [type |-> "date", operator |-> p.operator, value |-> IntOf(text[n]),
             unit |-> p.unit, period |-> ""]
       ELSE None

\* the filters of one time pattern, in the order of the text
TimePatternFilters(text, p) ==
    InOrder({i \in 1..Len(text) : DateFilterAt(text, p, i) # None},
            [i \in 1..Len(text) |-> DateFilterAt(text, p, i)])

\* special_patterns, in the order of the list
SpecialPeriods ==
    << [phrases |-> {<<"dzisiaj">>, <<"today">>}, period |-> "today"],
       [phrases |-> {<<"wczoraj">>, <<"yesterday">>}, period |-> "yesterday"],
       [phrases |-> {<<"w", " ", "tym", " ", "tygodniu">>, <<"this", " ", "week">>},
        period |-> "this_week"],
       [phrases |-> {<<"w", " ", "tym", " ", "miesiacu">>, <<"this", " ", "month">>},
        period |-> "this_month"],
       [phrases |-> {<<"w", " ", "tym", " ", "roku">>, <<"this", " ", "year">>},
        period |-> "this_year"],
       [phrases |-> {<<"ostatni", " ", "tydzien">>, <<"last", " ", "week">>},
        period |-> "last_week"],
       [phrases |-> {<<"ostatni", " ", "miesiac">>, <<"last", " ", "month">>},
        period |-> "last_month"],
       [phrases |-> {<<"ostatni", " ", "rok">>, <<"last", " ", "year">>},
        period |-> "last_year"] >>

RECURSIVE Flatten(_)
\* the concatenation of a sequence of sequences
Flatten(ss) == IF ss = <<>> THEN <<>> ELSE Head(ss) \o Flatten(Tail(ss))

\* _detect_date_filters
detect_date_filters(text) ==
    Flatten([k \in 1..Len(TimePatterns) |-> TimePatternFilters(text, TimePatterns[k])])
    \o InOrder({k \in 1..Len(SpecialPeriods) :
                   \E ph \in SpecialPeriods[k].phrases : Contains(text, ph)},
               [k \in 1..Len(SpecialPeriods) |->
                   [type |-> "date", operator |-> <<>>, value |-> 0, unit |-> "",
                    period |-> SpecialPeriods[k].period]])

\* the words the "contains" patterns match: the negated "niezawierajace" ends
\* with "zawierajace", and every "not contains" holds a "contains"
ContainsWords == {"zawierajace", "zawieraja", "contains", "containing", "niezawierajace"}

\* the quoted piece that a content pattern with quote q captures at position i,
\* <<>> when there is no match or the piece is empty
ContentAt(text, i, q) ==
    IF /\ i + 2 <= Len(text)
       /\ text[i + 1] = " "
       /\ text[i + 2] = q
       /\ FirstAt(text, i + 3, q) # 0
    THEN SubSeq(text, i + 3, FirstAt(text, i + 3, q) - 1)
    ELSE <<>>

\* whether the "not_contains" pattern starts at position i: "niezawierajace",
\* "nie zawieraja", "not containing", "not contains"
NegatedAt(text, i) ==
    \/ text[i] = "niezawierajace"
    \/ /\ i > 2
       /\ text[i - 1] = " "
       /\ \/ text[i - 2] = "nie" /\ text[i] = "zawieraja"
          \/ text[i - 2] = "not" /\ text[i] \in {"containing", "contains"}

\* the filters of one content pattern
ContentFilters(text, q, filter_type) ==
    LET at == {i \in 1..Len(text) :
                  /\ text[i] \in ContainsWords
                  /\ filter_type = "not_contains" => NegatedAt(text, i)
                  /\ ContentAt(text, i, q) # <<>>}
    IN InOrder(at, [i \in 1..Len(text) |->
                      [type |-> "content", filter_type |-> filter_type,
                       value |-> ContentAt(text, i, q)]])

\* _detect_content_filters
detect_content_filters(text) ==
    ContentFilters(text, "\"", "contains") \o ContentFilters(text, "'", "contains")
    \o ContentFilters(text, "\"", "not_contains") \o ContentFilters(text, "'", "not_contains")

\* the run [\w\/\.\-]+ (with_path) or [\w]+ from position i on: the position of
\* its last lexeme, i - 1 when it is empty
RunEnd(text, i, with_path) ==
    LET ok(x) == IsWord(x) \/ (with_path /\ x \in {"/", ".", "-"})
        stops == {k \in i..Len(text) : ~ok(text[k])}
    IN IF stops = {} THEN Len(text) ELSE Least(stops) - 1

\* re.search(r"(verbs) (?:do|to) ['\"]?(run)['\"]?"): the run of the first
\* match, <<>> without one
TargetOf(text, verbs, with_path) ==
    LET start(i) == IF i + 4 <= Len(text) /\ text[i + 4] \in {"'", "\""}
                    THEN i + 5 ELSE i + 4
        at == {i \in 1..Len(text) :
                  /\ text[i] \in verbs
                  /\ i + 4 <= Len(text)
                  /\ text[i + 1] = " "
                  /\ text[i + 2] \in {"do", "to"}
                  /\ text[i + 3] = " "
                  /\ start(i) <= RunEnd(text, start(i), with_path)}
    IN IF at = {} THEN <<>>
       ELSE SubSeq(text, start(Least(at)), RunEnd(text, start(Least(at)), with_path))

\* _detect_additional_actions
detect_additional_actions(text) ==
    LET copy == TargetOf(text, {"kopiuj", "skopiuj", "copy"}, TRUE)
        move == TargetOf(text, {"przenies", "move"}, TRUE)
        convert == TargetOf(text, {"konwertuj", "convert"}, FALSE)
    IN (IF copy # <<>> THEN <<[action |-> "copy", target |-> copy]>> ELSE <<>>)
       \o (IF move # <<>> THEN <<[action |-> "move", target |-> move]>> ELSE <<>>)
       \o (IF convert # <<>> THEN <<[action |-> "convert", target |-> convert]>> ELSE <<>>)

\* FileOperationParser.parse under the string hashing order of the process
FileParse(typed, order) ==
    LET text == Lower(typed)
    IN [operation |-> detect_operation(text),
        paths |-> detect_paths(text),
        patterns |-> ListOfSet(detect_patterns(text), order),
        size_filters |-> detect_size_filters(text),
        date_filters |-> detect_date_filters(text),
        content_filters |-> detect_content_filters(text),
        additional_actions |-> detect_additional_actions(text),
        original_text |-> text]

----------------------------------------------------------------------------
(* FileOperationTranslator *)

\* f'"{p}"'
Quoted(p) == <<"\"">> \o p \o <<"\"">>

\* ', '.join([f'"{p}"' for p in items])
QuotedList(items) == JoinWith([k \in 1..Len(items) |-> Quoted(items[k])], <<",", " ">>)

\* the text of a float held in tenths: str(100.0) is "100.0"
FloatText(tenths) == <<ToString(tenths \div 10), ".", ToString(tenths % 10)>>

\* the .where(...) text of one size filter
SizeWhere(filt) ==
    <<".", "where", "(", "size", " ">> \o filt.operator \o <<" ">>
    \o FloatText(filt.value) \o <<")">>

\* the .where(...) text of one date filter
DateWhere(filt) ==
    IF filt.period # ""
    THEN <<".", "where", "(", "modified_in", "(", "'", filt.period, "'", ")", ")">>
    ELSE <<".", "where", "(", "modified", " ">> \o filt.operator
         \o <<" ", ToString(filt.value), " ", filt.unit, ")">>

\* the .where(...) text of one content filter
ContentWhere(filt) ==
    IF filt.filter_type = "contains"
    THEN <<".", "where", "(", "content_contains", "(", "'">> \o filt.value
         \o <<"'", ")", ")">>
    ELSE <<".", "where", "(", "not", " ", "content_contains", "(", "'">> \o filt.value
         \o <<"'", ")", ")">>

\* the chained call of one additional action
ActionCall(action) ==
    <<".", action.action \o "_to", "(", "'">> \o action.target \o <<"'", ")">>

\* FileOperationTranslator.translate
FileTranslate(parsed) ==
    <<parsed.operation, "(">>
    \o (IF parsed.paths # <<>> /\ parsed.patterns # <<>>
        THEN <<"paths", "=", "[">> \o QuotedList(parsed.paths)
             \o <<"]", ",", " ", "patterns", "=", "[">> \o QuotedList(parsed.patterns)
             \o <<"]">>
        ELSE IF parsed.paths # <<>>
        THEN <<"paths", "=", "[">> \o QuotedList(parsed.paths) \o <<"]">>
        ELSE IF parsed.patterns # <<>>
        THEN <<"patterns", "=", "[">> \o QuotedList(parsed.patterns) \o <<"]">>
        ELSE <<"\"", "*", "\"">>)
    \o <<")">>
    \o Flatten([k \in 1..Len(parsed.size_filters) |-> SizeWhere(parsed.size_filters[k])])
    \o Flatten([k \in 1..Len(parsed.date_filters) |-> DateWhere(parsed.date_filters[k])])
    \o Flatten([k \in 1..Len(parsed.content_filters) |->
                   ContentWhere(parsed.content_filters[k])])
    \o Flatten([k \in 1..Len(parsed.additional_actions) |->
                   ActionCall(parsed.additional_actions[k])])

----------------------------------------------------------------------------
(* The directory the file executor searches *)

\* the files of the current directory, in the order the directory lists them
FileNames == << <<"a", ".", "csv">>, <<"b", ".", "csv">>, <<"c", ".", "txt">> >>

SecondsPerDay == 86400

\* what a file can be: its size in bytes, the seconds since its last
\* modification, the texts its content holds, the named periods its modification
\* time falls in
Profiles ==
    { [size |-> 50, age |-> 3 * SecondsPerDay, holds |-> {<<"raport">>},
       periods |-> {"this_month", "this_year"}],
      [size |-> 150, age |-> 10 * SecondsPerDay, holds |-> {},
       periods |-> {"this_year"}] }

\* the current directory
Cwd == <<"/", "work">>

\* os.path.abspath of a name found under the root path "."
AbsPath(name) == Cwd \o <<"/">> \o name

RECURSIVE GlobMatch(_, _)
\* fnmatch of a name against a pattern: "*" stands for any run
GlobMatch(pattern, name) ==
    IF pattern = <<>> THEN name = <<>>
    ELSE IF Head(pattern) = "*"
    THEN GlobMatch(Tail(pattern), name) \/ (name # <<>> /\ GlobMatch(pattern, Tail(name)))
    ELSE name # <<>> /\ Head(pattern) = Head(name) /\ GlobMatch(Tail(pattern), Tail(name))

\* glob.glob(os.path.join(path, pattern)): the files of the current directory for
\* the root ".", nothing for a root that does not exist
Glob(path, pattern) ==
    IF path = <<".">>
    THEN SelectSeq(FileNames, LAMBDA name : GlobMatch(pattern, name))
    ELSE <<>>

----------------------------------------------------------------------------
(* FileOperationExecutor: find and the chained where *)

\* the list os.path.abspath is mapped over
AbsPaths(names) == [k \in 1..Len(names) |-> AbsPath(names[k])]

\* _find_files: the absolute paths glob finds for every root and pattern
find_files(parsed_command) ==
    LET params == parsed_command.params
        one == Len(params) = 1 /\ params[1].kind = "str"
        two == Len(params) = 2 /\ params[1].kind = "list" /\ params[2].kind = "list"
        given_paths == IF two THEN params[1].items ELSE <<>>
        given_patterns == IF one THEN <<params[1].s>>
                          ELSE IF two THEN params[2].items ELSE <<>>
        paths == IF given_paths = <<>> THEN << <<".">> >> ELSE given_paths
        patterns == IF given_patterns = <<>> THEN << <<"*">> >> ELSE given_patterns
    IN AbsPaths(Flatten([i \in 1..Len(paths) |->
                   Flatten([j \in 1..Len(patterns) |-> Glob(paths[i], patterns[j])])]))

\* whether a path names a file of the directory
OnDisk(path) == \E k \in 1..Len(FileNames) : AbsPath(FileNames[k]) = path

\* the file a path names
FileAt(dir, path) == dir[CHOOSE k \in 1..Len(FileNames) : AbsPath(FileNames[k]) = path]

\* whether float(value) succeeds (numerals, fractions of one digit)
IsFloat(value) ==
    \/ Len(value) = 1 /\ IsNumeral(value[1])
    \/ /\ Len(value) = 3 /\ IsNumeral(value[1]) /\ value[2] = "."
       /\ IsNumeral(value[3]) /\ IntOf(value[3]) < 10

\* float(value), in tenths
FloatOf(value) ==
    IF Len(value) = 1 THEN IntOf(value[1]) * 10
    ELSE IntOf(value[1]) * 10 + IntOf(value[3])

SizeTestInclusive(operator, file_size, size_value) ==
    \/ operator \in {<<">">>, <<">", "=">>} /\ file_size >= size_value
    \/ operator \in {<<"<">>, <<"<", "=">>} /\ file_size <= size_value
    \/ operator = <<"=", "=">> /\ file_size = size_value

\* the comparison of the size branch, both sides in tenths
SizeTest(operator, file_size, size_value) ==
    \/ operator = <<">">> /\ file_size > size_value
    \/ operator = <<"<">> /\ file_size < size_value
    \/ operator = <<"=", "=">> /\ file_size = size_value
    \/ operator = <<">", "=">> /\ file_size >= size_value
    \/ operator = <<"<", "=">> /\ file_size <= size_value

\* the seconds of one unit, a tenth of them; 0 for a word that is no unit
UnitTenth(unit) ==
    CASE unit \in {<<"day">>, <<"days">>} -> 8640
      [] unit \in {<<"week">>, <<"weeks">>} -> 60480
      [] unit \in {<<"month">>, <<"months">>} -> 259200
      [] unit \in {<<"year">>, <<"years">>} -> 3153600
      [] OTHER -> 0

\* the comparison of the modified branch: time_diff against the value (in tenths)
\* times the seconds of the unit; a word that is no unit leaves the value as it is
AgeTest(operator, time_diff, tenths, unit) ==
    LET older == IF UnitTenth(unit) = 0 THEN time_diff * 10 > tenths
                 ELSE time_diff > tenths * UnitTenth(unit)
        newer == IF UnitTenth(unit) = 0 THEN time_diff * 10 < tenths
                 ELSE time_diff < tenths * UnitTenth(unit)
    IN \/ operator = <<">">> /\ older
       \/ operator = <<"<">> /\ newer

\* the named periods the modified_in branch knows
KnownPeriods == {"today", "yesterday", "this_week", "this_month", "this_year",
                 "last_week", "last_month", "last_year"}

\* whether the loop body of _chain_where appends the file: condition has at least
\* three entries, property_name, operator, value being the first three
WhereKeeps(dir, path, condition) ==
    LET property_name == condition[1].s
        operator == condition[2].s
        value == condition[3].s
        file == FileAt(dir, path)
    IN IF property_name = <<"size">>
       THEN IsFloat(value) /\ SizeTest(operator, file.size * 10, FloatOf(value))
       ELSE IF property_name = <<"modified">>
       THEN /\ Len(condition) >= 4
            /\ IsFloat(value)
            /\ AgeTest(operator, file.age, FloatOf(value), condition[4].s)
       ELSE IF property_name = <<"content_contains">>
       THEN operator \in file.holds
       ELSE IF property_name = <<"modified_in">>
       THEN \E p \in KnownPeriods \cap file.periods : operator = <<p>>
       ELSE FALSE

\* whether _chain_where raises: os.path.getsize / os.path.getmtime / of a path
\* that names no file
WhereRaises(given, condition) ==
    /\ Len(condition) >= 3
    /\ \/ condition[1].s = <<"size">>
       \/ condition[1].s = <<"modified">> /\ Len(condition) >= 4
       \/ condition[1].s = <<"modified_in">>
    /\ \E k \in 1..Len(given) : ~OnDisk(given[k])

\* _chain_where when it returns
chain_where(dir, given, condition) ==
    IF Len(condition) < 3 THEN given
    ELSE SelectSeq(given, LAMBDA path : OnDisk(path) /\ WhereKeeps(dir, path, condition))

----------------------------------------------------------------------------
(* FileOperationExecutor: copy, move and the chained copy_to, move_to *)

\* os.path.abspath of a path handed to the executor
Absolute(path) == IF path # <<>> /\ path[1] = "/" THEN path ELSE Cwd \o <<"/">> \o path

\* os.path.basename
PathBasename(path) ==
    LET slashes == {i \in 1..Len(path) : path[i] = "/"}
    IN IF slashes = {} THEN path ELSE SubSeq(path, Greatest(slashes) + 1, Len(path))

\* os.path.dirname
PathDirname(path) ==
    LET slashes == {i \in 1..Len(path) : path[i] = "/"}
    IN IF slashes = {} THEN <<>> ELSE SubSeq(path, 1, Greatest(slashes) - 1)

\* os.path.join
PathJoin(dir, name) == dir \o <<"/">> \o name

\* one call on the filesystem: os.makedirs(dest), shutil.copy2(source, dest),
\* shutil.move(source, dest); ok is whether it returned
FsCall(by, call, source, dest, ok) ==
    [by |-> by, call |-> call, source |-> source, dest |-> dest, ok |-> ok]

\* whether a regular file lies at path after the calls made so far: a file of the
\* directory that was not moved away, or one a copy or a move has written
IsFileNow(made, path) ==
    LET touching == {k \in 1..Len(made) :
                        /\ made[k].ok
                        /\ made[k].call \in {"copy2", "move"}
                        /\ \/ Absolute(made[k].dest) = Absolute(path)
                           \/ /\ made[k].call = "move"
                              /\ Absolute(made[k].source) = Absolute(path)}
    IN IF touching = {} THEN OnDisk(Absolute(path))
       ELSE Absolute(made[Greatest(touching)].dest) = Absolute(path)

\* whether a directory lies at path after the calls made so far
IsDirNow(made, path) ==
    \/ Absolute(path) = Cwd
    \/ \E k \in 1..Len(made) :
          /\ made[k].call = "makedirs"
          /\ \/ Absolute(made[k].dest) = Absolute(path)
             \/ /\ Len(Absolute(made[k].dest)) > Len(Absolute(path))
                /\ SubSeq(Absolute(made[k].dest), 1, Len(Absolute(path)) + 1)
                      = Absolute(path) \o <<"/">>

\* the status record _copy_files, _move_files, _chain_copy_to, _chain_move_to return
TransferStatus(list_key, done, failed) ==
    [kind |-> "status",
     status |-> IF failed = <<>> THEN "success" ELSE "partial",
     keys |-> <<"status", list_key, "errors", "count">>,
     done |-> done,
     errors |-> failed]

\* the status record returned when no source file was found
WarningStatus == [kind |-> "status", status |-> "warning", keys |-> <<"status", "message">>]

\* what a call of the executor leaves: the exception it raised or the value it
\* returned, and the filesystem calls made up to there
Outcome(exception, value, made) == [raised |-> exception, value |-> value, made |-> made]

RECURSIVE TransferLoop(_, _, _, _, _)
\* the loop of _copy_files and _move_files over source_files (the files glob has
\* just found: regular files of the current directory); acc holds the calls made,
\* the copied or moved entries and the errors
TransferLoop(by, call, sources, to_dir, acc) ==
    IF sources = <<>> THEN acc
    ELSE LET source == Head(sources)
             into_dir == IsDirNow(acc.made, to_dir)
             dest_path == IF into_dir THEN PathJoin(to_dir, PathBasename(source))
                          ELSE to_dir
             parent_dir == PathDirname(dest_path)
             makedirs == IF /\ ~into_dir
                            /\ parent_dir # <<>>
                            /\ ~IsDirNow(acc.made, parent_dir)
                            /\ ~IsFileNow(acc.made, parent_dir)
                         THEN <<FsCall(by, "makedirs", <<>>, parent_dir, TRUE)>>
                         ELSE <<>>
             ok == /\ IsFileNow(acc.made, source)
                   /\ call = "copy2" => Absolute(dest_path) # Absolute(source)
         IN TransferLoop(by, call, Tail(sources), to_dir,
                [made |-> acc.made \o makedirs \o <<FsCall(by, call, source, dest_path, ok)>>,
                 done |-> IF ok THEN Append(acc.done, [source |-> source,
                                                       destination |-> dest_path])
                          ELSE acc.done,
                 errors |-> IF ok THEN acc.errors ELSE Append(acc.errors, source)])

\* _copy_files (by = "copy") and _move_files (by = "move")
transfer_files(by, parsed_command) ==
    LET params == parsed_command.params
    IN IF Len(params) < 2
       THEN Outcome(Exc("ValueError", "Nie podano zrodla i celu"), None, <<>>)
       ELSE IF params[2].kind = "list" /\ params[2].items = <<>>
       THEN Outcome(Exc("IndexError", "list index out of range"), None, <<>>)
       ELSE LET source_files == find_files([params |-> <<params[1]>>])
                to_dir == IF params[2].kind = "str" THEN params[2].s
                               ELSE params[2].items[1]
                acc == TransferLoop(by, IF by = "copy" THEN "copy2" ELSE "move",
                                    source_files, to_dir,
                                    [made |-> <<>>, done |-> <<>>, errors |-> <<>>])
            IN IF source_files = <<>> THEN Outcome(None, WarningStatus, <<>>)
               ELSE Outcome(None,
                            TransferStatus(IF by = "copy" THEN "copied" ELSE "moved",
                                           acc.done, acc.errors),
                            acc.made)

RECURSIVE ChainLoop(_, _, _, _, _)
\* the loop of _chain_copy_to and _chain_move_to over files
ChainLoop(by, call, given, to_dir, acc) ==
    IF given = <<>> THEN acc
    ELSE LET source == Head(given)
             dest_path == PathJoin(to_dir, PathBasename(source))
             ok == IsFileNow(acc.made, source) /\ IsDirNow(acc.made, to_dir)
         IN ChainLoop(by, call, Tail(given), to_dir,
                [made |-> Append(acc.made, FsCall(by, call, source, dest_path, ok)),
                 done |-> IF ok THEN Append(acc.done, [source |-> source,
                                                       destination |-> dest_path])
                          ELSE acc.done,
                 errors |-> IF ok THEN acc.errors ELSE Append(acc.errors, source)])

\* _chain_copy_to (by = "copy_to") and _chain_move_to (by = "move_to"), made being
\* the calls of the command so far
chain_transfer(by, given, to_dir, made) ==
    LET makedirs == IF ~IsDirNow(made, to_dir) /\ ~IsFileNow(made, to_dir)
                    THEN <<FsCall(by, "makedirs", <<>>, to_dir, TRUE)>>
                    ELSE <<>>
        acc == ChainLoop(by, IF by = "copy_to" THEN "copy2" ELSE "move", given, to_dir,
                         [made |-> made \o makedirs, done |-> <<>>, errors |-> <<>>])
    IN Outcome(None,
               TransferStatus(IF by = "copy_to" THEN "copied" ELSE "moved",
                              acc.done, acc.errors),
               acc.made)

----------------------------------------------------------------------------
(* The file domain: parse, translate, FileOperationExecutor.execute *)

\* a text of three lexemes "*.ext"
Ext(e) == <<"*", ".", e>>

\* the commands typed in natural language
FileTexts ==
    { <<"znajdz", " ", "pliki", " ", "csv", " ", "i", " ", "txt">>,
      <<"znajdz", " ", "pliki", " ", "CSV">>,
      <<"znajdz", " ", "pliki", " ", "starsze", " ", "niz", " ", "7", " ", "dni">>,
      <<"find", " ", "files", " ", "newer", " ", "than", " ", "7", " ", "days">>,
      <<"znajdz", " ", "pliki", " ", "wieksze", " ", "niz", " ", "100", " ", "b">> }

\* the commands that copy, move or filter by content or period
TransferTexts ==
    { <<"skopiuj", " ", "pliki", " ", "csv">>,
      <<"przenies", " ", "pliki", " ", "csv">>,
      <<"znajdz", " ", "pliki", " ", "csv", " ", "i", " ", "skopiuj", " ", "do", " ",
        "backup">>,
      <<"find", " ", "csv", " ", "files", " ", "and", " ", "move", " ", "to", " ", "out">>,
      <<"find", " ", "csv", " ", "files", " ", "modified", " ", "this", " ", "month">>,
      <<"znajdz", " ", "pliki", " ", "csv", " ", "zawierajace", " ", "'", "raport", "'">> }

\* the comparisons the size branch of where implements
SizeOperators == ConditionOperators \ {<<"!", "=">>}

\* the thresholds written in the DSL texts of the model, with their values
Thresholds == {[text |-> <<"100">>, value |-> 100],
               [text |-> <<"150", ".", "0">>, value |-> 150]}

\* the pattern lists written in the DSL texts of the model
PatternLists == { <<Ext("csv")>>, <<Ext("csv"), Ext("txt")>> }

\* the DSL text find(patterns=[...]).where(size OP n)
FindWhereSize(patterns, op, n) ==
    <<"find", "(", "patterns", "=", "[">> \o QuotedList(patterns) \o <<"]", ")",
      ".", "where", "(", "size", " ">> \o op \o <<" ">> \o n \o <<")">>

\* the where predicates written after find("*") in the DSL texts of the model
Predicates ==
    { <<"size", " ", ">", " ", "200">>,
      <<"content_contains", "(", "'", "raport", "'", ")">>,
      <<"content_contains", "(", "'", "faktura", "'", ")">>,
      <<"modified_in", "(", "'", "today", "'", ")">>,
      <<"modified", " ", ">", " ", "30", " ", "days">> }

\* the DSL texts handed to execute directly
DslTexts ==
    { FindWhereSize(patterns, op, n.text) :
          patterns \in PatternLists, op \in SizeOperators, n \in Thresholds }
    \cup
    { <<"find", "(">> \o Quoted(<<"*">>) \o <<")", ".", "where", "(">> \o pred \o <<")">> :
          pred \in Predicates }
    \cup
    { <<"find", "(", "paths", "=", "[">> \o Quoted(<<"nowhere">>) \o <<"]", ",", " ",
        "patterns", "=", "[">> \o Quoted(Ext("csv")) \o <<",", " ">> \o Quoted(Ext("txt"))
        \o <<"]", ")">>,
      <<"find", "(", "patterns", "=", "[">> \o Quoted(Ext("csv")) \o <<",", " ">>
        \o Quoted(Ext("txt")) \o <<"]", ")", ".", "convert_to", "(", "'", "pdf", "'", ")">>,
      <<"find", "(", ")", ".", "sorted", "(", ")">>,
      <<"modify", "(", ")">>,
      <<"purge", "(", ")">>,
      <<"find">> }

\* the DSL texts that copy or move, and the texts execute has to refuse
TransferDsl ==
    { <<"find", "(">> \o Quoted(<<"*">>) \o <<")", ".", "copy_to", "(", ")">>,
      <<"find", "(">> \o Quoted(Ext("txt")) \o <<")", ".", "copy_to", "(", "'", "out", "'",
        ")", ".", "purge", "(", ")">>,
      <<"copy", "(">> \o Quoted(<<"*">>) \o <<")">>,
      <<"copy", "(", "paths", "=", "[">> \o Quoted(<<"docs">>) \o <<"]", ")">>,
      <<"move", "(", "paths", "=", "[">> \o Quoted(<<".">>) \o <<"]", ",", " ",
        "patterns", "=", "[">> \o Quoted(Ext("txt")) \o <<"]", ")">>,
      <<"find", "(", ")", ".", "sorted", "(", ")">>,
      <<"purge", "(">> \o Quoted(<<"*">>) \o <<")">>,
      <<"find", " ", "*", ".", "txt">> }

\* the patterns the texts of the model can name
PatternUniverse == UNION {detect_patterns(Lower(t)) : t \in FileTexts}

\* the orders Python's per-process string hashing can give set(patterns)
HashOrders ==
    {o \in [1..Cardinality(PatternUniverse) -> PatternUniverse] :
        \A p \in PatternUniverse : \E k \in DOMAIN o : o[k] = p}

QryIdle ==
    /\ qpc = "idle"
    /\ qtext = <<>>
    /\ intent = None
    /\ qcommand = <<>>
    /\ qparts = None
    /\ qidx = 0
    /\ qresult = None
    /\ qraised = None
    /\ chain_log = <<>>
    /\ fs_calls = <<>>

\* a fresh interpreter over any directory
QryInit ==
    /\ listing \in [1..Len(FileNames) -> Profiles]
    /\ hash_order \in HashOrders
    /\ emitted = {}
    /\ QryIdle

\* the file domain left alone
QryUnused ==
    /\ listing = [k \in 1..Len(FileNames) |-> CHOOSE p \in Profiles : p.size = 50]
    /\ hash_order = CHOOSE o \in HashOrders : TRUE
    /\ emitted = {}
    /\ QryIdle

\* FileOperationParser.parse(text)
QryParse(text) ==
    /\ qpc = "idle"
    /\ qtext' = text
    /\ intent' = FileParse(text, hash_order)
    /\ qpc' = "parsed"
    /\ UNCHANGED <<listing, hash_order, emitted, qcommand, qparts, qidx, qresult, qraised,
                   chain_log, fs_calls>>

\* FileOperationTranslator.translate(parsed_data)
QryTranslate ==
    /\ qpc = "parsed"
    /\ qcommand' = FileTranslate(intent)
    /\ emitted' = emitted \cup {<<qtext, FileTranslate(intent)>>}
    /\ qpc' = "execute"
    /\ UNCHANGED <<listing, hash_order, qtext, intent, qparts, qidx, qresult, qraised,
                   chain_log, fs_calls>>

\* execute called with a DSL text of the caller's own
QrySubmit(dsl) ==
    /\ qpc = "idle"
    /\ qcommand' = dsl
    /\ qpc' = "execute"
    /\ UNCHANGED <<listing, hash_order, emitted, qtext, intent, qparts, qidx, qresult,
                   qraised, chain_log, fs_calls>>

\* self.operations
Operations == {"find", "list", "create", "delete", "copy", "move", "modify"}

\* _modify_files
ModifyStatus == [kind |-> "status", status |-> "error", keys |-> <<"status", "message">>]

\* _chain_convert_to
ConvertStatus ==
    [kind |-> "status", status |-> "error", keys |-> <<"status", "message", "files">>]

\* execute up to the primary operation: _parse_dsl, the dispatch, the operation
\* (find, copy, move and modify are followed here)
QryMain ==
    /\ qpc = "execute"
    /\ IF DslSyntaxError(qcommand)
       THEN /\ qraised' = Exc("ValueError", "Nieprawidlowa skladnia DSL")
            /\ qpc' = "raised"
            /\ UNCHANGED <<qparts, qidx, qresult, fs_calls>>
       ELSE IF parse_dsl(qcommand).operation \notin Operations
       THEN /\ qraised' = Exc("ValueError", "Nieznana operacja: " \o parse_dsl(qcommand).operation)
            /\ qparts' = parse_dsl(qcommand)
            /\ qpc' = "raised"
            /\ UNCHANGED <<qidx, qresult, fs_calls>>
       ELSE IF parse_dsl(qcommand).operation \in {"copy", "move"}
       THEN LET out == transfer_files(parse_dsl(qcommand).operation, parse_dsl(qcommand))
            IN /\ qparts' = parse_dsl(qcommand)
               /\ fs_calls' = out.made
               /\ IF out.raised # None
                  THEN /\ qraised' = out.raised
                       /\ qpc' = "raised"
                       /\ UNCHANGED <<qidx, qresult>>
                  ELSE /\ qresult' = out.value
                       /\ qidx' = 1
                       /\ qpc' = "chain"
                       /\ UNCHANGED qraised
       ELSE /\ parse_dsl(qcommand).operation \in {"find", "modify"}
            /\ qparts' = parse_dsl(qcommand)
            /\ qresult' = IF parse_dsl(qcommand).operation = "find"
                          THEN ListVal(find_files(parse_dsl(qcommand)))
                          ELSE ModifyStatus
            /\ qidx' = 1
            /\ qpc' = "chain"
            /\ UNCHANGED <<qraised, fs_calls>>
    /\ UNCHANGED <<listing, hash_order, emitted, qtext, intent, qcommand, chain_log>>

\* what a chain action iterates: the list, or the keys of a status record
Iterated(value) ==
    IF value.kind = "list" THEN value.items
    ELSE [k \in 1..Len(value.keys) |-> <<value.keys[k]>>]

\* one turn of the loop over chain_actions; an action of a name outside copy_to,
\* move_to, convert_to and where is passed over
QryChain ==
    /\ qpc = "chain"
    /\ qidx <= Len(qparts.chain_actions)
    /\ LET action == qparts.chain_actions[qidx]
       IN IF action.action \in {"copy_to", "move_to", "convert_to"} /\ action.params = <<>>
          THEN /\ qraised' = Exc("IndexError", "list index out of range")
               /\ qpc' = "raised"
               /\ UNCHANGED <<qresult, qidx, chain_log, fs_calls>>
          ELSE IF action.action \in {"copy_to", "move_to"} /\ action.params[1].kind # "str"
          THEN /\ qraised' = Exc("TypeError", "expected str, bytes or os.PathLike object")
               /\ qpc' = "raised"
               /\ UNCHANGED <<qresult, qidx, chain_log, fs_calls>>
          ELSE IF action.action \in {"copy_to", "move_to"}
          THEN LET out == chain_transfer(action.action, Iterated(qresult),
                                         action.params[1].s, fs_calls)
               IN /\ qresult' = out.value
                  /\ fs_calls' = out.made
                  /\ qidx' = qidx + 1
                  /\ UNCHANGED <<qraised, qpc, chain_log>>
          ELSE IF action.action = "convert_to"
          THEN /\ qresult' = ConvertStatus
               /\ qidx' = qidx + 1
               /\ UNCHANGED <<qraised, qpc, chain_log, fs_calls>>
          ELSE IF action.action = "where" /\ Len(action.params) < 3
          THEN /\ chain_log' = Append(chain_log,
                     [text |-> action.text, given |-> qresult, out |-> qresult])
               /\ qidx' = qidx + 1
               /\ UNCHANGED <<qresult, qraised, qpc, fs_calls>>
          ELSE IF action.action = "where" /\ WhereRaises(Iterated(qresult), action.params)
          THEN /\ qraised' = Exc("FileNotFoundError", "")
               /\ qpc' = "raised"
               /\ UNCHANGED <<qresult, qidx, chain_log, fs_calls>>
          ELSE IF action.action = "where"
          THEN /\ qresult' = ListVal(chain_where(listing, Iterated(qresult), action.params))
               /\ chain_log' = Append(chain_log,
                     [text |-> action.text, given |-> qresult,
                      out |-> ListVal(chain_where(listing, Iterated(qresult),
                                                  action.params))])
               /\ qidx' = qidx + 1
               /\ UNCHANGED <<qraised, qpc, fs_calls>>
          ELSE /\ qidx' = qidx + 1
               /\ UNCHANGED <<qresult, qraised, qpc, chain_log, fs_calls>>
    /\ UNCHANGED <<listing, hash_order, emitted, qtext, intent, qcommand, qparts>>

\* self.last_result = result; return result
QryReturn ==
    /\ qpc = "chain"
    /\ qidx > Len(qparts.chain_actions)
    /\ qpc' = "returned"
    /\ UNCHANGED <<listing, hash_order, emitted, qtext, intent, qcommand, qparts, qidx,
                   qresult, qraised, chain_log, fs_calls>>

\* the caller has the result or the exception
QryExit ==
    /\ qpc \in {"returned", "raised"}
    /\ qpc' = "idle"
    /\ qtext' = <<>>
    /\ intent' = None
    /\ qcommand' = <<>>
    /\ qparts' = None
    /\ qidx' = 0
    /\ qresult' = None
    /\ qraised' = None
    /\ chain_log' = <<>>
    /\ fs_calls' = <<>>
    /\ UNCHANGED <<listing, hash_order, emitted>>

\* the interpreter is started anew: Python draws a new string hashing seed
QryRestart ==
    /\ qpc = "idle"
    /\ emitted # {}
    /\ hash_order' \in HashOrders \ {hash_order}
    /\ UNCHANGED <<listing, emitted, qpc, qtext, intent, qcommand, qparts, qidx, qresult,
                   qraised, chain_log, fs_calls>>

QryNext ==
    \/ \E text \in FileTexts : QryParse(text) /\ UNCHANGED <<procVars, pipeVars, copyVars, execVars, sqlVars>>
    \/ QryTranslate /\ UNCHANGED <<procVars, pipeVars, copyVars, execVars, sqlVars>>
    \/ \E dsl \in DslTexts : QrySubmit(dsl) /\ UNCHANGED <<procVars, pipeVars, copyVars, execVars, sqlVars>>
    \/ QryMain /\ UNCHANGED <<procVars, pipeVars, copyVars, execVars, sqlVars>>
    \/ QryChain /\ UNCHANGED <<procVars, pipeVars, copyVars, execVars, sqlVars>>
    \/ QryReturn /\ UNCHANGED <<procVars, pipeVars, copyVars, execVars, sqlVars>>
    \/ QryExit /\ UNCHANGED <<procVars, pipeVars, copyVars, execVars, sqlVars>>
    \/ QryRestart /\ UNCHANGED <<procVars, pipeVars, copyVars, execVars, sqlVars>>

\* the commands that copy, move or filter by content or period, and the DSL texts
\* that go with them, in one interpreter
FileNext ==
    \/ \E text \in TransferTexts : QryParse(text) /\ UNCHANGED <<procVars, pipeVars, copyVars, execVars, sqlVars>>
    \/ QryTranslate /\ UNCHANGED <<procVars, pipeVars, copyVars, execVars, sqlVars>>
    \/ \E dsl \in TransferDsl : QrySubmit(dsl) /\ UNCHANGED <<procVars, pipeVars, copyVars, execVars, sqlVars>>
    \/ QryMain /\ UNCHANGED <<procVars, pipeVars, copyVars, execVars, sqlVars>>
    \/ QryChain /\ UNCHANGED <<procVars, pipeVars, copyVars, execVars, sqlVars>>
    \/ QryReturn /\ UNCHANGED <<procVars, pipeVars, copyVars, execVars, sqlVars>>
    \/ QryExit /\ UNCHANGED <<procVars, pipeVars, copyVars, execVars, sqlVars>>

----------------------------------------------------------------------------
(* SQLExecutor *)

\* An exception object. `at` names the call that raised it: two objects of one
\* class and one message, raised by different calls, are different objects.
ExcAt(type, arg, at) == [kind |-> "exc", type |-> type, arg |-> arg, at |-> at]

\* the primary keys a row of table t can have
MaxKey == 2

\* a content of the database: the keys of the rows of its one table t
Contents == SUBSET (1..MaxKey)

\* str.upper() of a lexeme (the lower-case words of the model's queries)
UpperLexeme(x) ==
    CASE x = "select" -> "SELECT"
      [] x = "from" -> "FROM"
      [] OTHER -> x

\* str.upper()
Upper(s) == [i \in 1..Len(s) |-> UpperLexeme(s[i])]

InsertInto(table, key) ==
    <<"INSERT", " ", "INTO", " ", table, " ", "VALUES", " ", "(", ToString(key), ")">>

\* the queries handed to execute
Queries ==
    {<<"SELECT", " ", "*", " ", "FROM", " ", "t">>,
     <<" ", "select", " ", "*", " ", "from", " ", "t">>,
     <<"DELETE", " ", "FROM", " ", "t">>,
     <<>>}
    \cup {InsertInto("t", k) : k \in 1..MaxKey}
    \cup {InsertInto("nosuch", 1)}

\* query.strip().upper().split(): the words, each the sequence of its lexemes
QueryWords(q) == SplitBlank(Upper(Strip(q, {" "})))

\* What the database engine does with a statement on content db: the exception
\* it raises (None when it runs) and the content afterwards, the rows it yields
\* and cursor.rowcount. A statement that raises changes nothing; text that is no
\* SELECT, DELETE or INSERT INTO statement is a syntax error.
Engine(q, db) ==
    LET words == QueryWords(q)
        fails(type, msg) == [error |-> ExcAt(type, msg, "execute"), db |-> db,
                             rows |-> {}, rowcount |-> -1]
        runs(after, rows, n) == [error |-> None, db |-> after, rows |-> rows,
                                 rowcount |-> n]
    IN  IF words = <<>> THEN runs(db, {}, -1)
        ELSE IF words[1] = <<"SELECT">> THEN runs(db, db, -1)
        ELSE IF words[1] = <<"DELETE">> THEN runs({}, {}, Cardinality(db))
        ELSE IF words[1] # <<"INSERT">> \/ Len(words) < 3 \/ words[2] # <<"INTO">>
        THEN fails("OperationalError", "syntax error")
        ELSE IF words[3] # <<"t">> THEN fails("OperationalError", "no such table")
        ELSE LET key == IntOf(q[Len(q) - 1])
             IN IF key \in db THEN fails("IntegrityError", "UNIQUE constraint failed")
                ELSE runs(db \cup {key}, {}, 1)

\* the value of last_result after an exception e: {"error": str(e)}
ErrorMarker(e) == [kind |-> "dict", error |-> e.arg]

AffectedRows(n) == [kind |-> "dict", affected_rows |-> n]

RowList(rows) == [kind |-> "list", rows |-> rows]

ExecIdle ==
    /\ xpc = "idle"
    /\ xquery = None
    /\ db_at_call = {}
    /\ caught = None
    /\ rolled_back = FALSE
    /\ cursor = None
    /\ xresult = None
    /\ xraised = None

\* SQLExecutor.__init__: no connection yet (set_connection supplies it, which leaves
\* the executor as SQLExecutor(connection) does)
ExecInit ==
    /\ connection = "none"
    /\ committed \in Contents
    /\ pending = committed
    /\ last_query = None
    /\ last_result = None
    /\ ExecIdle

ExecUnused ==
    /\ connection = "none"
    /\ committed = {}
    /\ pending = {}
    /\ last_query = None
    /\ last_result = None
    /\ ExecIdle

\* set_connection with an open connection to the database
SetConnection ==
    /\ xpc = "idle"
    /\ connection = "none"
    /\ connection' = "open"
    /\ UNCHANGED <<committed, pending, last_query, last_result, xpc, xquery,
                   db_at_call, caught, rolled_back, cursor, xresult, xraised>>

\* the owner of the connection closes it between two calls; what was not
\* committed is lost
CloseConnection ==
    /\ xpc = "idle"
    /\ connection = "open"
    /\ connection' = "closed"
    /\ pending' = committed
    /\ UNCHANGED <<committed, last_query, last_result, xpc, xquery, db_at_call,
                   caught, rolled_back, cursor, xresult, xraised>>

\* execute(query): the connection test and last_query = query
ExecCall(q) ==
    /\ xpc = "idle"
    /\ xquery' = q
    /\ db_at_call' = committed
    /\ IF connection = "none"
       THEN /\ xraised' = ExcAt("ValueError", "Brak polaczenia do bazy danych", "test")
            /\ xpc' = "raised"
            /\ UNCHANGED last_query
       ELSE /\ last_query' = q
            /\ xpc' = "cursor"
            /\ UNCHANGED xraised
    /\ UNCHANGED <<connection, committed, pending, last_result, caught, rolled_back,
                   cursor, xresult>>

\* cursor = self.connection.cursor(): raises on a closed connection
ExecCursor ==
    /\ xpc = "cursor"
    /\ IF connection = "closed"
       THEN /\ caught' = ExcAt("ProgrammingError", "Cannot operate on a closed database.",
                               "cursor")
            /\ xpc' = "handler"
       ELSE /\ xpc' = "statement"
            /\ UNCHANGED caught
    /\ UNCHANGED <<connection, committed, pending, last_query, last_result, xquery,
                   db_at_call, rolled_back, cursor, xresult, xraised>>

\* cursor.execute(query) and query_type = query.strip().upper().split()[0]
ExecStatement ==
    /\ xpc = "statement"
    /\ LET out == Engine(xquery, pending)
       IN IF out.error # None
          THEN /\ caught' = out.error
               /\ xpc' = "handler"
               /\ UNCHANGED <<pending, cursor>>
          ELSE /\ pending' = out.db
               /\ cursor' = [rows |-> out.rows, rowcount |-> out.rowcount]
               /\ IF QueryWords(xquery) = <<>>
                  THEN /\ caught' = ExcAt("IndexError", "list index out of range", "split")
                       /\ xpc' = "handler"
                  ELSE /\ xpc' = IF QueryWords(xquery)[1] = <<"SELECT">> THEN "fetch"
                                 ELSE "commit"
                       /\ UNCHANGED caught
    /\ UNCHANGED <<connection, committed, last_query, last_result, xquery, db_at_call,
                   rolled_back, xresult, xraised>>

\* rows = cursor.fetchall() and the list of dicts; fetching can fail
ExecFetch ==
    /\ xpc = "fetch"
    /\ \/ /\ last_result' = RowList(cursor.rows)
          /\ xresult' = last_result'
          /\ xpc' = "returned"
          /\ UNCHANGED caught
       \/ /\ caught' = ExcAt("OperationalError", "database is locked", "fetchall")
          /\ xpc' = "handler"
          /\ UNCHANGED <<last_result, xresult>>
    /\ UNCHANGED <<connection, committed, pending, last_query, xquery, db_at_call,
                   rolled_back, cursor, xraised>>

\* affected_rows = cursor.rowcount; self.connection.commit(); committing can fail
ExecCommit ==
    /\ xpc = "commit"
    /\ \/ /\ committed' = pending
          /\ last_result' = AffectedRows(cursor.rowcount)
          /\ xresult' = last_result'
          /\ xpc' = "returned"
          /\ UNCHANGED caught
       \/ /\ caught' = ExcAt("OperationalError", "database is locked", "commit")
          /\ xpc' = "handler"
          /\ UNCHANGED <<committed, last_result, xresult>>
    /\ UNCHANGED <<connection, pending, last_query, xquery, db_at_call, rolled_back,
                   cursor, xraised>>

\* except Exception as e: self.connection.rollback(); self.last_result =
\* {"error": str(e)}; raise.  rollback() itself raises on a closed connection.
ExecExcept ==
    /\ xpc = "handler"
    /\ IF connection = "closed"
       THEN /\ xraised' = ExcAt("ProgrammingError", "Cannot operate on a closed database.",
                                "rollback")
            /\ UNCHANGED <<pending, rolled_back, last_result>>
       ELSE /\ pending' = committed
            /\ rolled_back' = TRUE
            /\ last_result' = ErrorMarker(caught)
            /\ xraised' = caught
    /\ xpc' = "raised"
    /\ UNCHANGED <<connection, committed, last_query, xquery, db_at_call, caught,
                   cursor, xresult>>

\* control is back at the caller
ExecExit ==
    /\ xpc \in {"returned", "raised"}
    /\ xpc' = "idle"
    /\ xquery' = None
    /\ db_at_call' = {}
    /\ caught' = None
    /\ rolled_back' = FALSE
    /\ cursor' = None
    /\ xresult' = None
    /\ xraised' = None
    /\ UNCHANGED <<connection, committed, pending, last_query, last_result>>

ExecNext ==
    \/ SetConnection /\ UNCHANGED <<procVars, pipeVars, copyVars, qryVars, sqlVars>>
    \/ CloseConnection /\ UNCHANGED <<procVars, pipeVars, copyVars, qryVars, sqlVars>>
    \/ (\E q \in Queries : ExecCall(q)) /\ UNCHANGED <<procVars, pipeVars, copyVars, qryVars, sqlVars>>
    \/ ExecCursor /\ UNCHANGED <<procVars, pipeVars, copyVars, qryVars, sqlVars>>
    \/ ExecStatement /\ UNCHANGED <<procVars, pipeVars, copyVars, qryVars, sqlVars>>
    \/ ExecFetch /\ UNCHANGED <<procVars, pipeVars, copyVars, qryVars, sqlVars>>
    \/ ExecCommit /\ UNCHANGED <<procVars, pipeVars, copyVars, qryVars, sqlVars>>
    \/ ExecExcept /\ UNCHANGED <<procVars, pipeVars, copyVars, qryVars, sqlVars>>
    \/ ExecExit /\ UNCHANGED <<procVars, pipeVars, copyVars, qryVars, sqlVars>>

----------------------------------------------------------------------------
(* Text of the SQL domain *)

\* A local variable: value is computed once and F is applied to it.
Bind(value, F(_)) == CHOOSE y \in {F(x) : x \in {value}} : TRUE

\* A str of the SQL domain is the sequence of its characters.  A Polish letter is
\* one character, written as its base letter followed by a mark: "a," "e," (ogonek),
\* "c'" "n'" "o'" "s'" "z'" (acute), "l/" (stroke), "z." (dot above).

Digits == <<"0", "1", "2", "3", "4", "5", "6", "7", "8", "9">>

IsDigit(c) == \E k \in 1..Len(Digits) : Digits[k] = c

\* the characters of the model's texts that \w does not match
NonWord == {" ", ".", ",", "(", ")", "'", "\"", "*", "=", "<", ">", "!", "%", "-", ";"}

\* the character classes of the regular expressions: \w, \d, \s, [^"'], [^)]
InClass(c, cls) ==
    CASE cls = "w" -> c \notin NonWord
      [] cls = "d" -> IsDigit(c)
      [] cls = "s" -> c = " "
      [] cls = "notquote" -> c \notin {"\"", "'"}
      [] cls = "notparen" -> c # ")"

UpperCase == <<"A", "B", "C", "D", "E", "F", "G", "H", "I", "J", "K", "L", "M", "N", "O",
               "P", "Q", "R", "S", "T", "U", "V", "W", "X", "Y", "Z">>

LowerCase == <<"a", "b", "c", "d", "e", "f", "g", "h", "i", "j", "k", "l", "m", "n", "o",
               "p", "q", "r", "s", "t", "u", "v", "w", "x", "y", "z">>

\* str.lower() of one character
LowerChar(c) ==
    IF \E k \in 1..Len(UpperCase) : UpperCase[k] = c
    THEN LowerCase[CHOOSE k \in 1..Len(UpperCase) : UpperCase[k] = c]
    ELSE c

\* str.lower()
LowerChars(s) == [i \in 1..Len(s) |-> LowerChar(s[i])]

\* str.isdigit()
IsDigits(s) == s # <<>> /\ \A i \in 1..Len(s) : IsDigit(s[i])

RECURSIVE IntOfDigits(_)
\* int(s) of a str of digits
IntOfDigits(s) ==
    IF s = <<>> THEN 0
    ELSE 10 * IntOfDigits(SubSeq(s, 1, Len(s) - 1))
         + (CHOOSE k \in 1..Len(Digits) : Digits[k] = s[Len(s)]) - 1

RECURSIVE DigitsOf(_)
\* str(n) of a natural number
DigitsOf(n) == IF n < 10 THEN <<Digits[n + 1]>> ELSE DigitsOf(n \div 10) \o <<Digits[(n % 10) + 1]>>

\* str.replace(old, new) for one-character old and new
ReplaceChar(s, old, new) == [i \in 1..Len(s) |-> IF s[i] = old THEN new ELSE s[i]]

\* str.startswith / str.endswith
StartsWith(s, piece) == StandsAt(s, 1, piece)

EndsWith(s, piece) == Len(piece) <= Len(s) /\ StandsAt(s, Len(s) - Len(piece) + 1, piece)

----------------------------------------------------------------------------
(* Regular expressions (module re) *)

\* A pattern is a tree: lit (literal text), plus (one or more characters of a class,
\* greedy), opt (optional, greedy), alt (alternatives in order), seq (concatenation),
\* grp (capturing group number n).
Lit(s) == [op |-> "lit", s |-> s]

Plus(cls) == [op |-> "plus", c |-> cls]

Opt(r) == [op |-> "opt", r |-> r]

Alt(rs) == [op |-> "alt", rs |-> rs]

Cat(rs) == [op |-> "seq", rs |-> rs]

Grp(n, r) == [op |-> "grp", n |-> n, r |-> r]

\* the most groups a pattern of the model has
MaxGroups == 4

\* no group has taken part in the match
NoGroups == [n \in 1..MaxGroups |-> [set |-> FALSE, s |-> <<>>]]

\* the number of characters of class cls standing in t from position i on
RunLength(t, i, cls) ==
    LET stops == {j \in i..Len(t) : ~InClass(t[j], cls)}
    IN IF stops = {} THEN Len(t) - i + 1 ELSE Least(stops) - i

RECURSIVE Ends(_, _, _, _), AltEnds(_, _, _, _), Continue(_, _, _), SeqEnds(_, _, _)
\* The ways pattern r matches t from position i on, in the order the backtracking
\* matcher tries them; each is the position after the match and the groups captured.
Ends(r, t, i, caps) ==
    CASE r.op = "lit" ->
            IF StandsAt(t, i, r.s) THEN <<[pos |-> i + Len(r.s), caps |-> caps]>> ELSE <<>>
      [] r.op = "plus" ->
            Bind(RunLength(t, i, r.c),
                 LAMBDA n : [k \in 1..n |-> [pos |-> i + n - k + 1, caps |-> caps]])
      [] r.op = "opt" -> Ends(r.r, t, i, caps) \o <<[pos |-> i, caps |-> caps]>>
      [] r.op = "alt" -> AltEnds(r.rs, t, i, caps)
      [] r.op = "seq" -> SeqEnds(r.rs, t, <<[pos |-> i, caps |-> caps]>>)
      [] r.op = "grp" ->
            Bind(Ends(r.r, t, i, caps),
                 LAMBDA inner :
                     [k \in 1..Len(inner) |->
                         [pos |-> inner[k].pos,
                          caps |-> [inner[k].caps EXCEPT
                                       ![r.n] = [set |-> TRUE,
                                                 s |-> SubSeq(t, i, inner[k].pos - 1)]]]])

AltEnds(rs, t, i, caps) ==
    IF rs = <<>> THEN <<>> ELSE Ends(Head(rs), t, i, caps) \o AltEnds(Tail(rs), t, i, caps)

\* pattern r continuing each of the partial matches outs
Continue(r, t, outs) ==
    IF outs = <<>> THEN <<>>
    ELSE Ends(r, t, Head(outs).pos, Head(outs).caps) \o Continue(r, t, Tail(outs))

SeqEnds(rs, t, outs) ==
    IF rs = <<>> THEN outs
    ELSE Bind(Continue(Head(rs), t, outs), LAMBDA next : SeqEnds(Tail(rs), t, next))

NoMatch == [found |-> FALSE, start |-> 0, pos |-> 0, caps |-> NoGroups]

\* re.search from position `from` on: the leftmost match, None without one
SearchFrom(r, t, from) ==
    Bind([i \in from..(Len(t) + 1) |-> Ends(r, t, i, NoGroups)],
         LAMBDA ends :
             Bind({i \in DOMAIN ends : ends[i] # <<>>},
                  LAMBDA starts :
                      IF starts = {} THEN NoMatch
                      ELSE Bind(Least(starts),
                                LAMBDA i : [found |-> TRUE, start |-> i,
                                            pos |-> ends[i][1].pos, caps |-> ends[i][1].caps])))

\* re.search(r, t)
Search(r, t) == SearchFrom(r, t, 1)

RECURSIVE FindIterFrom(_, _, _)
FindIterFrom(r, t, from) ==
    Bind(SearchFrom(r, t, from),
         LAMBDA m :
             IF ~m.found THEN <<>>
             ELSE <<m>> \o FindIterFrom(r, t, IF m.pos > m.start THEN m.pos ELSE m.pos + 1))

\* re.finditer(r, t): the matches from left to right, none overlapping another
FindIter(r, t) == FindIterFrom(r, t, 1)

\* re.findall(r'\b\w+\b', t): the words of t
WordsOf(t) ==
    Bind(FindIter(Plus("w"), t),
         LAMBDA ms : [k \in 1..Len(ms) |-> SubSeq(t, ms[k].start, ms[k].pos - 1)])

----------------------------------------------------------------------------
(* difflib.SequenceMatcher *)

Min(x, y) == IF x <= y THEN x ELSE y

\* how many characters a[i..] and b[j..] share before they differ or a part ends
CommonRun(a, i, ahi, b, j, bhi) ==
    LET span == Min(ahi - i, bhi - j)
        diffs == {e \in 0..span : a[i + e] # b[j + e]}
    IN IF diffs = {} THEN span + 1 ELSE Least(diffs)

\* find_longest_match: the longest block common to a[alo..ahi] and b[blo..bhi]; of
\* the longest the one starting earliest in a, of those the one earliest in b
find_longest_match(a, alo, ahi, b, blo, bhi) ==
    IF alo > ahi \/ blo > bhi THEN [i |-> alo, j |-> blo, size |-> 0]
    ELSE Bind([p \in (alo..ahi) \X (blo..bhi) |-> CommonRun(a, p[1], ahi, b, p[2], bhi)],
              LAMBDA size :
                  Bind(Greatest({size[p] : p \in DOMAIN size}),
                       LAMBDA longest :
                           Bind(Least({p[1] : p \in {q \in DOMAIN size : size[q] = longest}}),
                                LAMBDA i :
                                    [i |-> i,
                                     j |-> Least({p[2] : p \in {q \in DOMAIN size :
                                                      size[q] = longest /\ q[1] = i}}),
                                     size |-> longest])))

RECURSIVE Matches(_, _, _, _, _, _)
\* get_matching_blocks: the total size of the blocks found by taking the longest
\* common block and then the same to its left and to its right
Matches(a, alo, ahi, b, blo, bhi) ==
    Bind(find_longest_match(a, alo, ahi, b, blo, bhi),
         LAMBDA m :
             IF m.size = 0 THEN 0
             ELSE m.size + Matches(a, alo, m.i - 1, b, blo, m.j - 1)
                         + Matches(a, m.i + m.size, ahi, b, m.j + m.size, bhi))

\* SequenceMatcher(None, a, b).ratio() as the fraction <<2 * M, T>>; 1.0 when both
\* are empty
Ratio(a, b) ==
    IF Len(a) + Len(b) = 0 THEN <<1, 1>>
    ELSE <<2 * Matches(a, 1, Len(a), b, 1, Len(b)), Len(a) + Len(b)>>

\* x > y and x >= y for fractions with positive denominators
Above(x, y) == x[1] * y[2] > y[1] * x[2]

AtLeast(x, y) == x[1] * y[2] >= y[1] * x[2]

\* threshold: float = 0.7
Threshold == <<7, 10>>

----------------------------------------------------------------------------
(* SQLSchema *)

\* A dict is the sequence of its items [key, val] in insertion order.
DictHas(dct, k) == \E i \in 1..Len(dct) : dct[i].key = k

DictGet(dct, k, default) ==
    IF DictHas(dct, k) THEN dct[CHOOSE i \in 1..Len(dct) : dct[i].key = k].val ELSE default

\* dct[k] = v: a new key goes to the end, a known key keeps its place
DictPut(dct, k, v) ==
    IF DictHas(dct, k)
    THEN [i \in 1..Len(dct) |-> IF dct[i].key = k THEN [key |-> k, val |-> v] ELSE dct[i]]
    ELSE Append(dct, [key |-> k, val |-> v])

DictKeys(dct) == [i \in 1..Len(dct) |-> dct[i].key]

\* x in a list
InList(x, list) == \E i \in 1..Len(list) : list[i] = x

\* SQLSchema.__init__
EmptySchema ==
    [tables |-> <<>>, relationships |-> <<>>,
     synonyms |-> [tables |-> <<>>, columns |-> <<>>]]

RECURSIVE LowerKeys(_)
\* {k.lower(): v for k, v in columns.items()}
LowerKeys(columns) ==
    IF columns = <<>> THEN <<>>
    ELSE LET last == columns[Len(columns)]
         IN DictPut(LowerKeys(SubSeq(columns, 1, Len(columns) - 1)),
                    LowerChars(last.key), last.val)

add_table(s, table_name, columns) ==
    [s EXCEPT !.tables = DictPut(@, LowerChars(table_name), LowerKeys(columns))]

add_relationship(s, from_table, from_column, to_table, to_column, relationship_type) ==
    [s EXCEPT !.relationships =
        Append(@, [from_table |-> LowerChars(from_table),
                   from_column |-> LowerChars(from_column),
                   to_table |-> LowerChars(to_table),
                   to_column |-> LowerChars(to_column),
                   type |-> relationship_type])]

\* the list under key k with x appended unless it is there
WithSynonym(dct, k, x) ==
    LET list == DictGet(dct, k, <<>>)
    IN DictPut(dct, k, IF InList(x, list) THEN list ELSE Append(list, x))

add_table_synonym(s, table_name, synonym) ==
    [s EXCEPT !.synonyms.tables = WithSynonym(@, LowerChars(table_name), LowerChars(synonym))]

\* f"{table_name}.{column_name}"
ColumnKey(table_name, column_name) == table_name \o <<".">> \o column_name

\* col_key.split(".", 1)[1]
AfterDot(col_key) == SubSeq(col_key, FirstAt(col_key, 1, ".") + 1, Len(col_key))

add_column_synonym(s, table_name, column_name, synonym) ==
    [s EXCEPT !.synonyms.columns =
        WithSynonym(@, ColumnKey(LowerChars(table_name), LowerChars(column_name)),
                    LowerChars(synonym))]

get_table_names(s) == DictKeys(s.tables)

get_column_names(s, table_name) ==
    DictKeys(DictGet(s.tables, LowerChars(table_name), <<>>))

get_column_type(s, table_name, column_name) ==
    LET columns == DictGet(s.tables, LowerChars(table_name), <<>>)
    IN IF DictHas(columns, LowerChars(column_name))
       THEN StrVal(DictGet(columns, LowerChars(column_name), <<>>))
       ELSE None

RECURSIVE BestMatchTakesLast(_, _, _, _)
\* the fuzzy loops with `ratio >= best_ratio`: among candidates of equal ratio the
\* last one visited wins
BestMatchTakesLast(name, candidates, best_match, best_ratio) ==
    IF candidates = <<>> THEN best_match
    ELSE Bind(Ratio(name, Head(candidates).text),
              LAMBDA ratio :
                  IF AtLeast(ratio, best_ratio) /\ AtLeast(ratio, Threshold)
                  THEN BestMatchTakesLast(name, Tail(candidates),
                                          StrVal(Head(candidates).name), ratio)
                  ELSE BestMatchTakesLast(name, Tail(candidates), best_match, best_ratio))

RECURSIVE BestMatch(_, _, _, _)
\* The fuzzy loops: candidates are [text, name] in the order the loops visit them;
\* a candidate replaces the best one when its ratio is higher and reaches the
\* threshold.
BestMatch(name, candidates, best_match, best_ratio) ==
    IF candidates = <<>> THEN best_match
    ELSE Bind(Ratio(name, Head(candidates).text),
              LAMBDA ratio :
                  IF Above(ratio, best_ratio) /\ AtLeast(ratio, Threshold)
                  THEN BestMatch(name, Tail(candidates), StrVal(Head(candidates).name), ratio)
                  ELSE BestMatch(name, Tail(candidates), best_match, best_ratio))

RECURSIVE SynonymCandidates(_)
\* the synonyms of the items of a synonym dict, each with the key it is listed under
SynonymCandidates(items) ==
    IF items = <<>> THEN <<>>
    ELSE [k \in 1..Len(Head(items).val) |->
             [text |-> Head(items).val[k], name |-> Head(items).key]]
         \o SynonymCandidates(Tail(items))

\* find_table with the synonyms consulted before the stored names
find_table_synonyms_first(s, given) ==
    LET name == LowerChars(given)
        syn == s.synonyms.tables
        hits == {i \in 1..Len(syn) : InList(name, syn[i].val)}
    IN  IF hits # {} THEN StrVal(syn[Least(hits)].key)
        ELSE IF DictHas(s.tables, name) THEN StrVal(name)
        ELSE None

find_table(s, given) ==
    LET name == LowerChars(given)
        syn == s.synonyms.tables
        hits == {i \in 1..Len(syn) : InList(name, syn[i].val)}
        stored == get_table_names(s)
    IN  IF DictHas(s.tables, name) THEN StrVal(name)
        ELSE IF hits # {} THEN StrVal(syn[Least(hits)].key)
        ELSE Bind([k \in 1..Len(stored) |-> [text |-> stored[k], name |-> stored[k]]]
                  \o SynonymCandidates(syn),
                  LAMBDA candidates : BestMatch(name, candidates, None, <<0, 1>>))

find_column(s, given_table, given_column) ==
    LET table_name == LowerChars(given_table)
        column_name == LowerChars(given_column)
        column_key == ColumnKey(table_name, column_name)
        syn == s.synonyms.columns
        hits == {i \in 1..Len(syn) : syn[i].key = column_key \/ InList(column_name, syn[i].val)}
        stored == DictKeys(DictGet(s.tables, table_name, <<>>))
        own == SynonymCandidates(
                   SelectSeq(syn, LAMBDA item : StartsWith(item.key, table_name \o <<".">>)))
    IN  IF ~DictHas(s.tables, table_name) THEN None
        ELSE IF InList(column_name, stored) THEN StrVal(column_name)
        ELSE IF hits # {} THEN StrVal(AfterDot(syn[Least(hits)].key))
        ELSE Bind([k \in 1..Len(stored) |-> [text |-> stored[k], name |-> stored[k]]]
                  \o [k \in 1..Len(own) |->
                         [text |-> own[k].text, name |-> AfterDot(own[k].name)]],
                  LAMBDA candidates : BestMatch(column_name, candidates, None, <<0, 1>>))

find_joining_path(s, given_from, given_to) ==
    LET from_table == LowerChars(given_from)
        to_table == LowerChars(given_to)
        rels == s.relationships
        hits == {i \in 1..Len(rels) :
                    \/ rels[i].from_table = from_table /\ rels[i].to_table = to_table
                    \/ rels[i].from_table = to_table /\ rels[i].to_table = from_table}
    IN IF hits = {} THEN <<>>
       ELSE LET rel == rels[Least(hits)]
            IN <<[from_table |-> rel.from_table, from_column |-> rel.from_column,
                  to_table |-> rel.to_table, to_column |-> rel.to_column]>>

UnderscoreId == <<"_", "i", "d">>

RECURSIVE ColumnSynonyms(_, _, _)
\* _add_automatic_synonyms: the loop over the columns
ColumnSynonyms(s, table_name, names) ==
    IF names = <<>> THEN s
    ELSE LET column_name == Head(names)
             s1 == IF InList("_", column_name)
                   THEN add_column_synonym(s, table_name, column_name,
                                           ReplaceChar(column_name, "_", " "))
                   ELSE s
             s2 == IF StartsWith(column_name, <<"i", "d", "_">>)
                   THEN add_column_synonym(s1, table_name, column_name,
                                           SubSeq(column_name, 4, Len(column_name)))
                   ELSE s1
             s3 == IF EndsWith(column_name, UnderscoreId)
                   THEN add_column_synonym(s2, table_name, column_name,
                                           SubSeq(column_name, 1, Len(column_name) - 3))
                   ELSE s2
         IN Bind(s3, LAMBDA next : ColumnSynonyms(next, table_name, Tail(names)))

add_automatic_synonyms(s, table_name, columns) ==
    LET s1 == IF InList("_", table_name)
              THEN add_table_synonym(s, table_name, ReplaceChar(table_name, "_", " "))
              ELSE s
        s2 == IF EndsWith(table_name, <<"s">>)
              THEN add_table_synonym(s1, table_name, SubSeq(table_name, 1, Len(table_name) - 1))
              ELSE add_table_synonym(s1, table_name, table_name \o <<"s">>)
    IN ColumnSynonyms(s2, table_name, DictKeys(columns))

\* column_name.split("_id_")[1]
AfterIdIn(column_name) ==
    LET sep == <<"_", "i", "d", "_">>
        first == Least({i \in 1..Len(column_name) : StandsAt(column_name, i, sep)})
        rest == SubSeq(column_name, first + 4, Len(column_name))
        more == {i \in 1..Len(rest) : StandsAt(rest, i, sep)}
    IN IF more = {} THEN rest ELSE SubSeq(rest, 1, Least(more) - 1)

\* the (table, column) pairs in the order of the two loops of _detect_relationships
RECURSIVE TableColumns(_)
TableColumns(tables) ==
    IF tables = <<>> THEN <<>>
    ELSE [k \in 1..Len(Head(tables).val) |->
             [table |-> Head(tables).key, column |-> Head(tables).val[k].key]]
         \o TableColumns(Tail(tables))

RECURSIVE Relate(_, _)
Relate(s, pairs) ==
    IF pairs = <<>> THEN s
    ELSE LET column_name == Head(pairs).column
             named == EndsWith(column_name, UnderscoreId)
                      \/ Contains(column_name, <<"_", "i", "d", "_">>)
             target_table == IF EndsWith(column_name, UnderscoreId)
                             THEN SubSeq(column_name, 1, Len(column_name) - 3)
                             ELSE AfterIdIn(column_name)
         IN Bind(IF named /\ DictHas(s.tables, target_table)
                 THEN add_relationship(s, Head(pairs).table, column_name, target_table,
                                       <<"i", "d">>, "many-to-one")
                 ELSE s,
                 LAMBDA next : Relate(next, Tail(pairs)))

detect_relationships(s) == Relate(s, TableColumns(s.tables))

RECURSIVE LoadTables(_, _)
\* _load_from_sqlite: the loop over the tables of sqlite_master
LoadTables(s, db) ==
    IF db = <<>> THEN s
    ELSE Bind(add_automatic_synonyms(add_table(s, Head(db).key, Head(db).val),
                                     Head(db).key, Head(db).val),
              LAMBDA next : LoadTables(next, Tail(db)))

\* load_from_connection of a sqlite3 connection to database db (its tables in the
\* order of sqlite_master, each with its columns and their declared types)
load_from_connection(s, db) == detect_relationships(LoadTables(s, db))

----------------------------------------------------------------------------
(* SQLParser: its dictionaries *)

\* self.actions: action -> keywords, in the order of the dict
Actions ==
    <<[key |-> "select", val |->
          <<<<"p", "o", "k", "a", "z.">>, <<"w", "y", "s'", "w", "i", "e", "t", "l">>,
            <<"z", "n", "a", "j", "d", "z'">>,
            <<"w", "y", "s", "z", "u", "k", "a", "j">>,
            <<"p", "o", "b", "i", "e", "r", "z">>, <<"l", "i", "s", "t", "a">>,
            <<"g", "e", "t">>, <<"s", "h", "o", "w">>,
            <<"d", "i", "s", "p", "l", "a", "y">>, <<"f", "i", "n", "d">>,
            <<"s", "e", "a", "r", "c", "h">>,
            <<"r", "e", "t", "r", "i", "e", "v", "e">>, <<"l", "i", "s", "t">>,
            <<"s", "e", "l", "e", "c", "t">>>>],
      [key |-> "insert", val |->
          <<<<"d", "o", "d", "a", "j">>, <<"w", "s", "t", "a", "w">>,
            <<"u", "t", "w", "o'", "r", "z">>,
            <<"w", "p", "r", "o", "w", "a", "d", "z'">>, <<"n", "o", "w", "y">>,
            <<"a", "d", "d">>, <<"i", "n", "s", "e", "r", "t">>,
            <<"c", "r", "e", "a", "t", "e">>, <<"n", "e", "w">>>>],
      [key |-> "update", val |->
          <<<<"z", "a", "k", "t", "u", "a", "l", "i", "z", "u", "j">>,
            <<"z", "m", "i", "e", "n'">>,
            <<"m", "o", "d", "y", "f", "i", "k", "u", "j">>,
            <<"p", "o", "p", "r", "a", "w">>, <<"u", "p", "d", "a", "t", "e">>,
            <<"m", "o", "d", "i", "f", "y">>, <<"c", "h", "a", "n", "g", "e">>,
            <<"a", "l", "t", "e", "r">>>>],
      [key |-> "delete", val |->
          <<<<"u", "s", "u", "n'">>, <<"k", "a", "s", "u", "j">>,
            <<"w", "y", "m", "a", "z.">>, <<"s", "k", "a", "s", "u", "j">>,
            <<"r", "e", "m", "o", "v", "e">>, <<"d", "e", "l", "e", "t", "e">>,
            <<"e", "r", "a", "s", "e">>>>],
      [key |-> "count", val |->
          <<<<"p", "o", "l", "i", "c", "z">>, <<"z", "l", "i", "c", "z">>,
            <<"c", "o", "u", "n", "t">>,
            <<"c", "a", "l", "c", "u", "l", "a", "t", "e">>,
            <<"c", "o", "m", "p", "u", "t", "e">>>>],
      [key |-> "group", val |->
          <<<<"g", "r", "u", "p", "u", "j">>, <<"g", "r", "o", "u", "p">>,
            <<"c", "a", "t", "e", "g", "o", "r", "i", "z", "e">>>>],
      [key |-> "sort", val |->
          <<<<"s", "o", "r", "t", "u", "j">>,
            <<"u", "p", "o", "r", "z", "a,", "d", "k", "u", "j">>,
            <<"s", "o", "r", "t">>, <<"o", "r", "d", "e", "r">>>>],
      [key |-> "join", val |->
          <<<<"p", "o", "l/", "a,", "c", "z">>, <<"z", "l/", "a,", "c", "z">>,
            <<"j", "o", "i", "n">>, <<"c", "o", "m", "b", "i", "n", "e">>,
            <<"m", "e", "r", "g", "e">>>>],
      [key |-> "limit", val |->
          <<<<"o", "g", "r", "a", "n", "i", "c", "z">>, <<"l", "i", "m", "i", "t">>,
            <<"t", "o", "p">>>>]>>

\* self.operators: phrase -> SQL operator, in the order of the dict
Operators ==
    <<[key |-> <<"r", "o'", "w", "n", "e">>, val |-> <<"=">>],
      [key |-> <<"r", "o'", "w", "n", "y">>, val |-> <<"=">>],
      [key |-> <<"r", "o'", "w", "n", "a">>, val |-> <<"=">>],
      [key |-> <<"r", "o'", "w", "n", "y", "c", "h">>, val |-> <<"=">>],
      [key |-> <<"j", "e", "s", "t">>, val |-> <<"=">>],
      [key |-> <<"t", "o">>, val |-> <<"=">>],
      [key |-> <<"w", "y", "n", "o", "s", "i">>, val |-> <<"=">>],
      [key |-> <<"w", "i", "e,", "k", "s", "z", "e">>, val |-> <<">">>],
      [key |-> <<"w", "i", "e,", "k", "s", "z", "y">>, val |-> <<">">>],
      [key |-> <<"w", "i", "e,", "k", "s", "z", "a">>, val |-> <<">">>],
      [key |-> <<"p", "o", "w", "y", "z.", "e", "j">>, val |-> <<">">>],
      [key |-> <<"m", "n", "i", "e", "j", "s", "z", "e">>, val |-> <<"<">>],
      [key |-> <<"m", "n", "i", "e", "j", "s", "z", "y">>, val |-> <<"<">>],
      [key |-> <<"m", "n", "i", "e", "j", "s", "z", "a">>, val |-> <<"<">>],
      [key |-> <<"p", "o", "n", "i", "z.", "e", "j">>, val |-> <<"<">>],
      [key |-> <<"c", "o", " ", "n", "a", "j", "m", "n", "i", "e", "j">>, val |-> <<">", "=">>],
      [key |-> <<"m", "i", "n", "i", "m", "u", "m">>, val |-> <<">", "=">>],
      [key |-> <<"p", "r", "z", "y", "n", "a", "j", "m", "n", "i", "e", "j">>, val |-> <<">", "=">>],
      [key |-> <<"n", "i", "e", " ", "w", "i", "e,", "c", "e", "j", " ", "n", "i", "z.">>, val |-> <<"<", "=">>],
      [key |-> <<"m", "a", "k", "s", "i", "m", "u", "m">>, val |-> <<"<", "=">>],
      [key |-> <<"c", "o", " ", "n", "a", "j", "w", "y", "z.", "e", "j">>, val |-> <<"<", "=">>],
      [key |-> <<"r", "o'", "z.", "n", "e", " ", "o", "d">>, val |-> <<"<", ">">>],
      [key |-> <<"n", "i", "e", " ", "j", "e", "s", "t">>, val |-> <<"<", ">">>],
      [key |-> <<"i", "n", "n", "e", " ", "n", "i", "z.">>, val |-> <<"<", ">">>],
      [key |-> <<"n", "o", "t">>, val |-> <<"<", ">">>],
      [key |-> <<"=">>, val |-> <<"=">>],
      [key |-> <<">">>, val |-> <<">">>],
      [key |-> <<"<">>, val |-> <<"<">>],
      [key |-> <<">", "=">>, val |-> <<">", "=">>],
      [key |-> <<"<", "=">>, val |-> <<"<", "=">>],
      [key |-> <<"!", "=">>, val |-> <<"<", ">">>],
      [key |-> <<"<", ">">>, val |-> <<"<", ">">>]>>

\* self.sort_directions: phrase -> direction, in the order of the dict
SortDirections ==
    <<[key |-> <<"r", "o", "s", "n", "a,", "c", "o">>, val |-> <<"A", "S", "C">>],
      [key |-> <<"o", "d", " ", "n", "a", "j", "m", "n", "i", "e", "j", "s", "z", "e", "g", "o">>, val |-> <<"A", "S", "C">>],
      [key |-> <<"o", "d", " ", "n", "a", "j", "m", "n", "i", "e", "j", "s", "z", "e", "j">>, val |-> <<"A", "S", "C">>],
      [key |-> <<"o", "d", " ", "n", "a", "j", "n", "i", "z.", "s", "z", "e", "g", "o">>, val |-> <<"A", "S", "C">>],
      [key |-> <<"m", "a", "l", "e", "j", "a,", "c", "o">>, val |-> <<"D", "E", "S", "C">>],
      [key |-> <<"o", "d", " ", "n", "a", "j", "w", "i", "e,", "k", "s", "z", "e", "g", "o">>, val |-> <<"D", "E", "S", "C">>],
      [key |-> <<"o", "d", " ", "n", "a", "j", "w", "i", "e,", "k", "s", "z", "e", "j">>, val |-> <<"D", "E", "S", "C">>],
      [key |-> <<"o", "d", " ", "n", "a", "j", "w", "y", "z.", "s", "z", "e", "g", "o">>, val |-> <<"D", "E", "S", "C">>],
      [key |-> <<"a", "s", "c">>, val |-> <<"A", "S", "C">>],
      [key |-> <<"a", "s", "c", "e", "n", "d", "i", "n", "g">>, val |-> <<"A", "S", "C">>],
      [key |-> <<"d", "e", "s", "c">>, val |-> <<"D", "E", "S", "C">>],
      [key |-> <<"d", "e", "s", "c", "e", "n", "d", "i", "n", "g">>, val |-> <<"D", "E", "S", "C">>]>>

\* self.aggregations: phrase -> SQL function, in the order of the dict (a phrase
\* written twice in the literal keeps its first place and its last value)
Aggregations ==
    <<[key |-> <<"s", "u", "m", "a">>, val |-> <<"S", "U", "M">>],
      [key |-> <<"l/", "a,", "c", "z", "n", "i", "e">>, val |-> <<"S", "U", "M">>],
      [key |-> <<"r", "a", "z", "e", "m">>, val |-> <<"S", "U", "M">>],
      [key |-> <<"s'", "r", "e", "d", "n", "i", "a">>, val |-> <<"A", "V", "G">>],
      [key |-> <<"s'", "r", "e", "d", "n", "i">>, val |-> <<"A", "V", "G">>],
      [key |-> <<"s'", "r", "e", "d", "n", "i", "o">>, val |-> <<"A", "V", "G">>],
      [key |-> <<"m", "a", "k", "s", "i", "m", "u", "m">>, val |-> <<"M", "A", "X">>],
      [key |-> <<"m", "a", "k", "s", "y", "m", "a", "l", "n", "y">>, val |-> <<"M", "A", "X">>],
      [key |-> <<"m", "a", "k", "s", "y", "m", "a", "l", "n", "a">>, val |-> <<"M", "A", "X">>],
      [key |-> <<"n", "a", "j", "w", "y", "z.", "s", "z", "y">>, val |-> <<"M", "A", "X">>],
      [key |-> <<"n", "a", "j", "w", "y", "z.", "s", "z", "a">>, val |-> <<"M", "A", "X">>],
      [key |-> <<"m", "i", "n", "i", "m", "u", "m">>, val |-> <<"M", "I", "N">>],
      [key |-> <<"m", "i", "n", "i", "m", "a", "l", "n", "y">>, val |-> <<"M", "I", "N">>],
      [key |-> <<"m", "i", "n", "i", "m", "a", "l", "n", "a">>, val |-> <<"M", "I", "N">>],
      [key |-> <<"n", "a", "j", "n", "i", "z.", "s", "z", "y">>, val |-> <<"M", "I", "N">>],
      [key |-> <<"n", "a", "j", "n", "i", "z.", "s", "z", "a">>, val |-> <<"M", "I", "N">>],
      [key |-> <<"l", "i", "c", "z", "b", "a">>, val |-> <<"C", "O", "U", "N", "T">>],
      [key |-> <<"i", "l", "o", "s'", "c'">>, val |-> <<"C", "O", "U", "N", "T">>],
      [key |-> <<"s", "u", "m">>, val |-> <<"S", "U", "M">>],
      [key |-> <<"t", "o", "t", "a", "l">>, val |-> <<"S", "U", "M">>],
      [key |-> <<"a", "v", "g">>, val |-> <<"A", "V", "G">>],
      [key |-> <<"a", "v", "e", "r", "a", "g", "e">>, val |-> <<"A", "V", "G">>],
      [key |-> <<"m", "e", "a", "n">>, val |-> <<"A", "V", "G">>],
      [key |-> <<"m", "a", "x">>, val |-> <<"M", "A", "X">>],
      [key |-> <<"m", "a", "x", "i", "m", "u", "m">>, val |-> <<"M", "A", "X">>],
      [key |-> <<"h", "i", "g", "h", "e", "s", "t">>, val |-> <<"M", "A", "X">>],
      [key |-> <<"m", "i", "n">>, val |-> <<"M", "I", "N">>],
      [key |-> <<"l", "o", "w", "e", "s", "t">>, val |-> <<"M", "I", "N">>],
      [key |-> <<"c", "o", "u", "n", "t">>, val |-> <<"C", "O", "U", "N", "T">>],
      [key |-> <<"n", "u", "m", "b", "e", "r">>, val |-> <<"C", "O", "U", "N", "T">>],
      [key |-> <<"q", "u", "a", "n", "t", "i", "t", "y">>, val |-> <<"C", "O", "U", "N", "T">>]>>

----------------------------------------------------------------------------
(* SQLParser *)

Space == Plus("s")

\* words = text.split(); the first action of self.actions with a keyword among the
\* words; "select" without one
detect_action(text) ==
    LET words == SplitBlank(text)
        hits == {i \in 1..Len(Actions) :
                    \E k \in 1..Len(Actions[i].val) : InList(Actions[i].val[k], words)}
    IN IF hits = {} THEN "select" ELSE Actions[Least(hits)].key

\* any(syn in text for syn in list)
AnyIn(list, text) == \E k \in 1..Len(list) : Contains(text, list[k])

RECURSIVE FuzzyTables(_, _, _)
\* _detect_tables: the loop over the words when no table name stands in the text
FuzzyTables(s, words, tables) ==
    IF words = <<>> THEN tables
    ELSE Bind(IF Len(Head(words)) > 3 THEN find_table(s, Head(words)) ELSE None,
              LAMBDA match :
                  Bind(IF match # None /\ ~InList(match.s, tables)
                       THEN Append(tables, match.s) ELSE tables,
                       LAMBDA next : FuzzyTables(s, Tail(words), next)))

detect_tables(s, text) ==
    Bind(SelectSeq(get_table_names(s),
                   LAMBDA table_name :
                       \/ Contains(text, table_name)
                       \/ AnyIn(DictGet(s.synonyms.tables, table_name, <<>>), text)),
         LAMBDA named :
             IF s.tables = <<>> THEN <<>>
             ELSE IF named # <<>> THEN named
             ELSE Bind(WordsOf(text), LAMBDA words : FuzzyTables(s, words, <<>>)))

RECURSIVE AggregationsIn(_, _)
\* _detect_columns: the (function, word) pairs, one per match of
\* rf'{agg_key}\s+(\w+)', for the aggregation phrases standing in the text
AggregationsIn(text, aggs) ==
    IF aggs = <<>> THEN <<>>
    ELSE Bind(IF Contains(text, Head(aggs).key)
              THEN FindIter(Cat(<<Lit(Head(aggs).key), Space, Grp(1, Plus("w"))>>), text)
              ELSE <<>>,
              LAMBDA ms :
                  [k \in 1..Len(ms) |-> [func |-> Head(aggs).val, col_name |-> ms[k].caps[1].s]])
         \o AggregationsIn(text, Tail(aggs))

\* the columns of the table whose name, or one of whose synonyms, stands in the text
NamedColumns(s, text, table) ==
    SelectSeq(get_column_names(s, table),
              LAMBDA col :
                  \/ Contains(text, col)
                  \/ AnyIn(DictGet(s.synonyms.columns, ColumnKey(table, col), <<>>), text))

\* {table: [] for table in tables}
EmptyLists(tables) == [k \in 1..Len(tables) |-> [key |-> tables[k], val |-> <<>>]]

\* all(not cols for cols in columns.values())
AllEmpty(columns) == \A k \in 1..Len(columns) : columns[k].val = <<>>

\* _detect_columns, no column named: the column find_column gives for the word is
\* added to the table's list unless it is there
FuzzyColumn(s, word, table, columns) ==
    Bind(IF Len(word) > 3 THEN find_column(s, table, word) ELSE None,
         LAMBDA match :
             LET list == DictGet(columns, table, <<>>)
             IN IF match # None /\ ~InList(match.s, list)
                THEN DictPut(columns, table, Append(list, match.s))
                ELSE columns)

RECURSIVE OverWordsAndTables(_, _, _, _, _)
\* for word in words: for table in tables
OverWordsAndTables(s, words, tables, rest, columns) ==
    IF words = <<>> THEN columns
    ELSE IF rest = <<>> THEN OverWordsAndTables(s, Tail(words), tables, tables, columns)
    ELSE Bind(FuzzyColumn(s, Head(words), Head(rest), columns),
              LAMBDA next : OverWordsAndTables(s, words, tables, Tail(rest), next))

\* f"{agg_func}({match})"
Call(func, arg) == func \o <<"(">> \o arg \o <<")">>

RECURSIVE AddAggregations(_, _, _, _)
\* _detect_columns: each aggregation goes to the first table with a column for its
\* word, or to all_columns; the result is [columns, all_columns]
AddAggregations(s, aggs, tables, acc) ==
    IF aggs = <<>> THEN acc
    ELSE Bind([k \in 1..Len(tables) |-> find_column(s, tables[k], Head(aggs).col_name)],
              LAMBDA found :
                  LET hits == {k \in 1..Len(tables) : found[k] # None}
                      k == Least(hits)
                  IN Bind(IF hits = {}
                          THEN [acc EXCEPT !.all_columns =
                                   Append(@, Call(Head(aggs).func, Head(aggs).col_name))]
                          ELSE [acc EXCEPT !.columns =
                                   DictPut(@, tables[k],
                                           Append(DictGet(@, tables[k], <<>>),
                                                  Call(Head(aggs).func, found[k].s)))],
                          LAMBDA next : AddAggregations(s, Tail(aggs), tables, next)))

\* _detect_columns: the columns named in the text
Named(s, text, tables) ==
    IF s.tables = <<>> THEN EmptyLists(tables)
    ELSE [k \in 1..Len(tables) |->
             [key |-> tables[k], val |-> NamedColumns(s, text, tables[k])]]

\* _detect_columns: no column named, the words of the text are tried as column names
Fuzzy(s, text, tables, named) ==
    IF s.tables # <<>> /\ AllEmpty(named)
    THEN Bind(WordsOf(text), LAMBDA words : OverWordsAndTables(s, words, tables, tables, named))
    ELSE named

\* _detect_columns: a table of the catalog left without a column gets all its columns
Filled(s, fuzzy) ==
    [k \in 1..Len(fuzzy) |->
        IF fuzzy[k].val = <<>> /\ DictHas(s.tables, fuzzy[k].key)
        THEN [key |-> fuzzy[k].key, val |-> DictKeys(DictGet(s.tables, fuzzy[k].key, <<>>))]
        ELSE fuzzy[k]]

\* _detect_columns: nothing found at all, every table gets ["*"]
Starred(added) ==
    IF AllEmpty(added.columns) /\ added.all_columns = <<>>
    THEN [k \in 1..Len(added.columns) |-> [key |-> added.columns[k].key, val |-> <<<<"*">>>>]]
    ELSE added.columns

detect_columns(s, text, tables) ==
    Bind(Named(s, text, tables), LAMBDA named :
    Bind(Fuzzy(s, text, tables, named), LAMBDA fuzzy :
    Bind(Filled(s, fuzzy), LAMBDA filled :
    Bind(AggregationsIn(text, Aggregations), LAMBDA aggregations :
    Bind(AddAggregations(s, aggregations, tables, [columns |-> filled, all_columns |-> <<>>]),
         LAMBDA added : Starred(added))))))

\* (["\']([^"\']+)["\']|(\d+)): a quoted text (group 2) or a number (group 3)
Quote == Alt(<<Lit(<<"\"">>), Lit(<<"'">>)>>)

ValuePattern == Grp(1, Alt(<<Cat(<<Quote, Grp(2, Plus("notquote")), Quote>>), Grp(3, Plus("d"))>>))

\* match.group(2) or match.group(3)
ValueOf(m) == IF m.caps[2].set /\ m.caps[2].s # <<>> THEN m.caps[2].s ELSE m.caps[3].s

Condition(table, col, operator, value) ==
    [table |-> table, column |-> col, operator |-> operator, value |-> value]

RECURSIVE Flat(_)
\* the lists of a list, one after the other
Flat(lists) == IF lists = <<>> THEN <<>> ELSE Head(lists) \o Flat(Tail(lists))

\* the conditions one pattern gives, in the order of its matches
PatternConditions(pattern, text, table, col, operator) ==
    Bind(FindIter(pattern, text),
         LAMBDA ms :
             [k \in 1..Len(ms) |-> Condition(table, col, operator, StrVal(ValueOf(ms[k])))])

\* _detect_conditions: for one spelling of a column, <column> <operator> <value> over
\* the operators, then <value> <operator> <column> over the operators (both need
\* the spelling to stand in the text)
VariantConditions(text, table, col, col_var) ==
    IF ~Contains(text, col_var) THEN <<>>
    ELSE Flat([k \in 1..Len(Operators) |->
                PatternConditions(Cat(<<Lit(col_var), Space, Lit(Operators[k].key), Space,
                                        ValuePattern>>),
                                  text, table, col, Operators[k].val)])
         \o Flat([k \in 1..Len(Operators) |->
                PatternConditions(Cat(<<ValuePattern, Space, Lit(Operators[k].key), Space,
                                        Lit(col_var)>>),
                                  text, table, col, Operators[k].val)])

SimpleConditions(s, text, table) ==
    LET columns == get_column_names(s, table)
    IN Flat([c \in 1..Len(columns) |->
             LET col == columns[c]
                 col_variants == <<col>> \o DictGet(s.synonyms.columns, ColumnKey(table, col), <<>>)
             IN Flat([v \in 1..Len(col_variants) |->
                      VariantConditions(text, table, col, col_variants[v])])])

\* str.upper() of one character
UpperChar(c) ==
    IF \E k \in 1..Len(LowerCase) : LowerCase[k] = c
    THEN UpperCase[CHOOSE k \in 1..Len(LowerCase) : LowerCase[k] = c]
    ELSE c

UpperChars(s) == [i \in 1..Len(s) |-> UpperChar(s[i])]

\* v.strip(' "\'') for v in group.split(',')
ListItems(text) ==
    LET pieces == SplitAt(text, ",")
    IN [k \in 1..Len(pieces) |-> Strip(pieces[k], {" ", "\"", "'"})]

\* the date phrases and the expression each stands for.  The code looks for the
\* number in the pattern's own text, which holds none, so \3 stays as written.
DatePatterns ==
    <<[pattern |-> Alt(<<Lit(<<"d", "z", "i", "s", "i", "a", "j">>), Lit(<<"t", "o", "d", "a", "y">>)>>), expr |-> <<"C", "U", "R", "R", "E", "N", "T", "_", "D", "A", "T", "E">>],
      [pattern |-> Alt(<<Lit(<<"w", "c", "z", "o", "r", "a", "j">>), Lit(<<"y", "e", "s", "t", "e", "r", "d", "a", "y">>)>>), expr |-> <<"D", "A", "T", "E", "(", "'", "n", "o", "w", "'", ",", " ", "'", "-", "1", " ", "d", "a", "y", "'", ")">>],
      [pattern |-> Cat(<<Grp(1, Alt(<<Cat(<<Lit(<<"o", "s", "t", "a", "t", "n", "i">>), Opt(Grp(2, Alt(<<Lit(<<"e">>), Lit(<<"c", "h">>)>>)))>>), Lit(<<"l", "a", "s", "t">>)>>)),
                         Space, Grp(3, Plus("d")), Space, Grp(4, Alt(<<Lit(<<"d", "n", "i">>), Lit(<<"d", "a", "y">>)>>))>>),
       expr |-> <<"D", "A", "T", "E", "(", "'", "n", "o", "w", "'", ",", " ", "'", "-", "\\", "3", " ", "d", "a", "y", "'", ")">>],
      [pattern |-> Cat(<<Grp(1, Alt(<<Cat(<<Lit(<<"o", "s", "t", "a", "t", "n", "i">>), Opt(Grp(2, Alt(<<Lit(<<"e">>), Lit(<<"c", "h">>)>>)))>>), Lit(<<"l", "a", "s", "t">>)>>)),
                         Space, Grp(3, Plus("d")), Space, Grp(4, Alt(<<Lit(<<"t", "y", "g", "o", "d", "n", "i">>), Lit(<<"t", "y", "d", "z", "i", "e", "n'">>), Lit(<<"w", "e", "e", "k">>)>>))>>),
       expr |-> <<"D", "A", "T", "E", "(", "'", "n", "o", "w", "'", ",", " ", "'", "-", "\\", "3", " ", "w", "e", "e", "k", "'", ")">>],
      [pattern |-> Cat(<<Grp(1, Alt(<<Cat(<<Lit(<<"o", "s", "t", "a", "t", "n", "i">>), Opt(Grp(2, Alt(<<Lit(<<"e">>), Lit(<<"c", "h">>)>>)))>>), Lit(<<"l", "a", "s", "t">>)>>)),
                         Space, Grp(3, Plus("d")), Space, Grp(4, Alt(<<Lit(<<"m", "i", "e", "s", "i", "e,", "c", "y">>), Lit(<<"m", "i", "e", "s", "i", "a,", "c">>), Lit(<<"m", "o", "n", "t", "h">>)>>))>>),
       expr |-> <<"D", "A", "T", "E", "(", "'", "n", "o", "w", "'", ",", " ", "'", "-", "\\", "3", " ", "m", "o", "n", "t", "h", "'", ")">>],
      [pattern |-> Cat(<<Grp(1, Alt(<<Cat(<<Lit(<<"o", "s", "t", "a", "t", "n", "i">>), Opt(Grp(2, Alt(<<Lit(<<"e">>), Lit(<<"c", "h">>)>>)))>>), Lit(<<"l", "a", "s", "t">>)>>)),
                         Space, Grp(3, Plus("d")), Space, Grp(4, Alt(<<Lit(<<"l", "a", "t">>), Lit(<<"r", "o", "k">>), Lit(<<"y", "e", "a", "r">>)>>))>>),
       expr |-> <<"D", "A", "T", "E", "(", "'", "n", "o", "w", "'", ",", " ", "'", "-", "\\", "3", " ", "y", "e", "a", "r", "'", ")">>]>>

\* _detect_conditions: LIKE, IN, BETWEEN and date conditions of one column
SpecialConditions(s, text, table, col) ==
    LET col_type == get_column_type(s, table, col)
        upper == UpperChars(col_type.s)
        textual == \/ col_type.s # <<>> /\ Contains(upper, <<"C", "H", "A", "R">>)
                   \/ Contains(upper, <<"T", "E", "X", "T">>)
                   \/ Contains(upper, <<"V", "A", "R", "C", "H", "A", "R">>)
        dated == col_type.s # <<>> /\ (Contains(upper, <<"D", "A", "T", "E">>) \/ Contains(upper, <<"T", "I", "M", "E">>))
        likes == FindIter(Cat(<<Grp(1, Alt(<<Lit(<<"z", "a", "w", "i", "e", "r", "a">>), Lit(<<"c", "o", "n", "t", "a", "i", "n", "s">>), Lit(<<"l", "i", "k", "e">>), Lit(<<"p", "o", "d", "o", "b", "n", "e", " ", "d", "o">>)>>)), Space, Quote,
                               Grp(2, Plus("notquote")), Quote>>), text)
        amongs == FindIter(Cat(<<Lit(col), Space, Grp(1, Alt(<<Lit(<<"w">>), Lit(<<"w", "s'", "r", "o'", "d">>), Lit(<<"s", "p", "o", "s'", "r", "o'", "d">>), Lit(<<"i", "n">>), Lit(<<"a", "m", "o", "n", "g">>)>>)), Space,
                                Lit(<<"(">>), Grp(2, Plus("notparen")), Lit(<<")">>)>>), text)
        betweens == FindIter(Cat(<<Lit(col), Space, Grp(1, Alt(<<Lit(<<"m", "i", "e,", "d", "z", "y">>), Lit(<<"b", "e", "t", "w", "e", "e", "n">>), Lit(<<"o", "d">>), Lit(<<"f", "r", "o", "m">>)>>)), Space,
                                  Grp(2, Plus("d")), Space, Grp(3, Alt(<<Lit(<<"d", "o">>), Lit(<<"i">>), Lit(<<"a", "n", "d">>), Lit(<<"t", "o">>)>>)), Space,
                                  Grp(4, Plus("d"))>>), text)
        dated_by == SelectSeq(DatePatterns, LAMBDA p : Search(p.pattern, text).found)
    IN Bind(IF textual THEN likes ELSE <<>>,
            LAMBDA like :
                [k \in 1..Len(like) |->
                    Condition(table, col, <<"L", "I", "K", "E">>,
                              StrVal(<<"%">> \o like[k].caps[2].s \o <<"%">>))])
       \o Bind(amongs,
               LAMBDA among :
                   [k \in 1..Len(among) |->
                       Condition(table, col, <<"I", "N">>,
                                 ListVal(ListItems(among[k].caps[2].s)))])
       \o Bind(betweens,
               LAMBDA between :
                   [k \in 1..Len(between) |->
                       Condition(table, col, <<"B", "E", "T", "W", "E", "E", "N">>,
                                 [kind |-> "tuple", min_val |-> between[k].caps[2].s,
                                  max_val |-> between[k].caps[4].s])])
       \o Bind(IF dated THEN dated_by ELSE <<>>,
               LAMBDA dates :
                   [k \in 1..Len(dates) |->
                       [table |-> table, column |-> col, operator |-> <<">", "=">>,
                        value |-> StrVal(dates[k].expr), is_expression |-> TRUE]])

detect_conditions(s, text, tables) ==
    Flat([t \in 1..Len(tables) |-> SimpleConditions(s, text, tables[t])])
    \o Flat([t \in 1..Len(tables) |->
             LET columns == get_column_names(s, tables[t])
             IN Flat([c \in 1..Len(columns) |->
                      SpecialConditions(s, text, tables[t], columns[c])])])

\* the pairs (i, j), i < j, in the order of the two loops of _detect_joins
PairsInOrder(n) ==
    Flat([i \in 1..n |-> [d \in 1..(n - i) |-> <<i, i + d>>]])

detect_joins(s, text, tables) ==
    LET pairs == PairsInOrder(Len(tables))
    IN Flat([k \in 1..Len(pairs) |->
             find_joining_path(s, tables[pairs[k][1]], tables[pairs[k][2]])])

\* the optional connective of the grouping and sorting patterns
By(words) == Opt(Alt([k \in 1..Len(words) |-> Lit(<<" ">> \o words[k])]))

\* group_patterns; column_name = match.group(1)
GroupPatterns ==
    <<Cat(<<Lit(<<"g", "r", "u", "p">>), Grp(1, Alt(<<Lit(<<"u", "j">>), Lit(<<"o", "w", "a", "n", "e">>), Lit(<<"o", "w", "a", "n", "a">>)>>)), By(<<<<"p", "r", "z", "e", "z">>, <<"b", "y">>, <<"w", "e", "d", "l/", "u", "g">>, <<"p", "o">>>>),
            Lit(<<" ">>), Grp(2, Plus("w"))>>),
      Cat(<<Lit(<<"g", "r", "o", "u", "p">>), By(<<<<"b", "y">>>>), Lit(<<" ">>), Grp(1, Plus("w"))>>),
      Cat(<<Lit(<<"w", "e", "d", "l/", "u", "g", " ">>), Grp(1, Plus("w"))>>),
      Cat(<<Lit(<<"p", "o", "g", "r", "u", "p", "o", "w", "a", "n", "e", " ">>), Alt(<<Lit(<<"p", "r", "z", "e", "z">>), Lit(<<"p", "o">>), Lit(<<"w", "e", "d", "l/", "u", "g">>)>>), Lit(<<" ">>), Grp(1, Plus("w"))>>)>>

\* sort_patterns; column_name = match.group(1)
SortPatterns ==
    <<Cat(<<Lit(<<"s", "o", "r", "t">>), Grp(1, Alt(<<Lit(<<"u", "j">>), Lit(<<"o", "w", "a", "n", "e">>), Lit(<<"o", "w", "a", "n", "a">>)>>)), By(<<<<"w", "e", "d", "l/", "u", "g">>, <<"p", "r", "z", "e", "z">>, <<"b", "y">>, <<"p", "o">>>>),
            Lit(<<" ">>), Grp(2, Plus("w"))>>),
      Cat(<<Lit(<<"o", "r", "d", "e", "r">>), By(<<<<"b", "y">>>>), Lit(<<" ">>), Grp(1, Plus("w"))>>),
      Cat(<<Lit(<<"u", "p", "o", "r", "z", "a,", "d", "k">>), Grp(1, Alt(<<Lit(<<"u", "j">>), Lit(<<"o", "w", "a", "n", "e">>), Lit(<<"o", "w", "a", "n", "a">>)>>)), By(<<<<"w", "e", "d", "l/", "u", "g">>, <<"p", "r", "z", "e", "z">>, <<"p", "o">>>>),
            Lit(<<" ">>), Grp(2, Plus("w"))>>)>>

\* the words group(1) of the matches of the patterns, pattern by pattern
FirstGroups(patterns, text) ==
    Flat([p \in 1..Len(patterns) |->
          Bind(FindIter(patterns[p], text),
               LAMBDA ms : [k \in 1..Len(ms) |-> ms[k].caps[1].s])])

\* the first table that has a column for the word, with that column; None without
ColumnFor(s, tables, column_name) ==
    Bind([k \in 1..Len(tables) |-> find_column(s, tables[k], column_name)],
         LAMBDA found :
             LET hits == {k \in 1..Len(tables) : found[k] # None}
             IN IF hits = {} THEN None
                ELSE [kind |-> "column", table |-> tables[Least(hits)],
                      column |-> found[Least(hits)].s])

RECURSIVE GroupInto(_, _, _, _)
GroupInto(s, tables, names, grouped) ==
    IF names = <<>> THEN grouped
    ELSE Bind(ColumnFor(s, tables, Head(names)),
              LAMBDA at :
                  Bind(IF at = None THEN grouped
                       ELSE DictPut(grouped, at.table,
                                    Append(DictGet(grouped, at.table, <<>>), at.column)),
                       LAMBDA next : GroupInto(s, tables, Tail(names), next)))

detect_group_by(s, text, tables) ==
    Bind(FirstGroups(GroupPatterns, text),
         LAMBDA names : GroupInto(s, tables, names, EmptyLists(tables)))

\* the direction of the first phrase of self.sort_directions standing in the text
DirectionIn(text) ==
    LET hits == {k \in 1..Len(SortDirections) : Contains(text, SortDirections[k].key)}
    IN IF hits = {} THEN <<"A", "S", "C">> ELSE SortDirections[Least(hits)].val

detect_order_by(s, text, tables) ==
    Bind(FirstGroups(SortPatterns, text), LAMBDA names :
    Bind([k \in 1..Len(names) |-> ColumnFor(s, tables, names[k])], LAMBDA found :
    Bind(SelectSeq(found, LAMBDA at : at # None), LAMBDA kept :
    Bind(DirectionIn(text), LAMBDA direction :
         [k \in 1..Len(kept) |->
             [table |-> kept[k].table, column |-> kept[k].column, direction |-> direction]]))))

\* limit_patterns, each with the number of its groups
LimitPatterns ==
    <<[groups |-> 3, pattern |->
          Cat(<<Grp(1, Alt(<<Cat(<<Lit(<<"p", "i", "e", "r", "w", "s", "z", "y">>), Opt(Grp(2, Alt(<<Lit(<<"e">>), Lit(<<"c", "h">>)>>)))>>), Lit(<<"p", "i", "e", "r", "w", "s", "z", "e">>), Lit(<<"f", "i", "r", "s", "t">>)>>)),
                Lit(<<" ">>), Grp(3, Plus("d"))>>)],
      [groups |-> 3, pattern |->
          Cat(<<Grp(1, Alt(<<Cat(<<Lit(<<"g", "o'", "r", "n", "y">>), Opt(Grp(2, Alt(<<Lit(<<"e">>), Lit(<<"c", "h">>)>>)))>>), Lit(<<"g", "o'", "r", "n", "e">>), Lit(<<"t", "o", "p">>)>>)),
                Lit(<<" ">>), Grp(3, Plus("d"))>>)],
      [groups |-> 3, pattern |->
          Cat(<<Grp(1, Alt(<<Cat(<<Lit(<<"n", "a", "j", "l", "e", "p", "s", "z", "y">>), Opt(Grp(2, Alt(<<Lit(<<"e">>), Lit(<<"c", "h">>)>>)))>>), Lit(<<"n", "a", "j", "l", "e", "p", "s", "z", "e">>), Lit(<<"b", "e", "s", "t">>)>>)),
                Lit(<<" ">>), Grp(3, Plus("d"))>>)],
      [groups |-> 1, pattern |-> Cat(<<Lit(<<"l", "i", "m", "i", "t", " ">>), Grp(1, Plus("d"))>>)],
      [groups |-> 1, pattern |-> Cat(<<Lit(<<"o", "g", "r", "a", "n", "i", "c", "z", " ", "d", "o", " ">>), Grp(1, Plus("d"))>>)],
      [groups |-> 1, pattern |-> Cat(<<Lit(<<"p", "o", "k", "a", "z.", " ">>), Grp(1, Plus("d"))>>)],
      [groups |-> 1, pattern |-> Cat(<<Lit(<<"w", "y", "s'", "w", "i", "e", "t", "l", " ">>), Grp(1, Plus("d"))>>)],
      [groups |-> 3, pattern |->
          Cat(<<Grp(1, Plus("d")), Lit(<<" ">>),
                Grp(2, Alt(<<Cat(<<Lit(<<"p", "i", "e", "r", "w", "s", "z", "y">>), Opt(Grp(3, Alt(<<Lit(<<"e">>), Lit(<<"c", "h">>)>>)))>>), Lit(<<"p", "i", "e", "r", "w", "s", "z", "e">>), Lit(<<"f", "i", "r", "s", "t">>)>>))>>)],
      [groups |-> 3, pattern |->
          Cat(<<Grp(1, Plus("d")), Lit(<<" ">>),
                Grp(2, Alt(<<Cat(<<Lit(<<"g", "o'", "r", "n", "y">>), Opt(Grp(3, Alt(<<Lit(<<"e">>), Lit(<<"c", "h">>)>>)))>>), Lit(<<"g", "o'", "r", "n", "e">>), Lit(<<"t", "o", "p">>)>>))>>)],
      [groups |-> 3, pattern |->
          Cat(<<Grp(1, Plus("d")), Lit(<<" ">>),
                Grp(2, Alt(<<Cat(<<Lit(<<"n", "a", "j", "l", "e", "p", "s", "z", "y">>), Opt(Grp(3, Alt(<<Lit(<<"e">>), Lit(<<"c", "h">>)>>)))>>), Lit(<<"n", "a", "j", "l", "e", "p", "s", "z", "e">>), Lit(<<"b", "e", "s", "t">>)>>))>>)]>>

IntVal(n) == [kind |-> "int", n |-> n]

\* int(match.group(1) if match.group(1).isdigit() else match.group(2) if
\* len(match.groups()) >= 2 and match.group(2).isdigit() else match.group(3)):
\* isdigit on a group that took no part is an AttributeError
LimitOf(m, groups) ==
    IF IsDigits(m.caps[1].s) THEN IntVal(IntOfDigits(m.caps[1].s))
    ELSE IF groups >= 2 /\ ~m.caps[2].set
         THEN Exc("AttributeError", "'NoneType' object has no attribute 'isdigit'")
    ELSE IF groups >= 2 /\ IsDigits(m.caps[2].s) THEN IntVal(IntOfDigits(m.caps[2].s))
    ELSE IntVal(IntOfDigits(m.caps[3].s))

\* the first pattern of limit_patterns that matches decides
detect_limit(text) ==
    Bind([k \in 1..Len(LimitPatterns) |-> Search(LimitPatterns[k].pattern, text)],
         LAMBDA found :
             LET hits == {k \in 1..Len(LimitPatterns) : found[k].found}
             IN IF hits = {} THEN None
                ELSE LimitOf(found[Least(hits)], LimitPatterns[Least(hits)].groups))

\* SQLParser.parse: the query dict, or the exception that leaves the call
SqlParse(s, typed) ==
    Bind(LowerChars(typed), LAMBDA text :
    Bind(detect_action(text), LAMBDA action :
    Bind(detect_tables(s, text), LAMBDA tables :
         LET query == [action |-> action, tables |-> tables, original_text |-> text]
         IN  IF action = "select"
             THEN Bind(detect_limit(text), LAMBDA limit :
                       IF limit.kind = "exc" THEN limit
                       ELSE [action |-> action, tables |-> tables, original_text |-> text,
                             columns |-> detect_columns(s, text, tables),
                             conditions |-> detect_conditions(s, text, tables),
                             joins |-> detect_joins(s, text, tables),
                             group_by |-> detect_group_by(s, text, tables),
                             order_by |-> detect_order_by(s, text, tables),
                             limit |-> limit])
             ELSE IF action = "delete"
             THEN [action |-> action, tables |-> tables, original_text |-> text,
                   conditions |-> detect_conditions(s, text, tables)]
             ELSE query)))

----------------------------------------------------------------------------
(* SQLTranslator *)

\* dict.get(key, default) of the query dict
Get(query, key, default) == IF key \in DOMAIN query THEN query[key] ELSE default

\* f"{table}.{col}"
Dotted(table, col) == table \o <<".">> \o col

\* _translate_select: the select list
SelectParts(tables, columns) ==
    Flat([t \in 1..Len(tables) |->
          LET table_columns == DictGet(columns, tables[t], <<<<"*">>>>)
          IN [c \in 1..Len(table_columns) |->
                 LET col == table_columns[c]
                 IN IF col = <<"*">> THEN Dotted(tables[t], <<"*">>)
                    ELSE IF InList("(", col) /\ InList(")", col) THEN col
                    ELSE Dotted(tables[t], col)]])

RECURSIVE JoinClauses(_, _)
\* _translate_select: the loop over the joins; acc is [clauses, processed_tables]
JoinClauses(joins, acc) ==
    IF joins = <<>> THEN acc
    ELSE LET join == Head(joins)
             clause(new, old, new_column, old_column) ==
                 <<"J", "O", "I", "N", " ">> \o new \o <<" ", "O", "N", " ">>
                 \o Dotted(old, old_column) \o <<" ", "=", " ">> \o Dotted(new, new_column)
         IN IF join.from_table \in acc.processed /\ join.to_table \notin acc.processed
            THEN JoinClauses(Tail(joins),
                             [clauses |-> Append(acc.clauses,
                                                 clause(join.to_table, join.from_table,
                                                        join.to_column, join.from_column)),
                              processed |-> acc.processed \cup {join.to_table}])
            ELSE IF join.to_table \in acc.processed /\ join.from_table \notin acc.processed
            THEN JoinClauses(Tail(joins),
                             [clauses |-> Append(acc.clauses,
                                                 clause(join.from_table, join.to_table,
                                                        join.from_column, join.to_column)),
                              processed |-> acc.processed \cup {join.from_table}])
            ELSE JoinClauses(Tail(joins), acc)

RECURSIVE CrossJoins(_, _)
\* _translate_select: the tables no join reached
CrossJoins(tables, acc) ==
    IF tables = <<>> THEN acc
    ELSE IF Head(tables) \in acc.processed THEN CrossJoins(Tail(tables), acc)
    ELSE CrossJoins(Tail(tables),
                    [clauses |-> IF acc.processed # {}
                                 THEN Append(acc.clauses,
                                             <<"C", "R", "O", "S", "S", " ", "J", "O", "I", "N", " ">>
                                             \o Head(tables))
                                 ELSE acc.clauses,
                     processed |-> acc.processed \cup {Head(tables)}])

\* f"'{v}'"
InQuotes(v) == <<"'">> \o v \o <<"'">>

\* one condition of the WHERE part; `column` is the column as it is written
WhereCondition(cond, column) ==
    LET operator == cond.operator
        value == cond.value
    IN  IF Get(cond, "is_expression", FALSE)
        THEN column \o <<" ">> \o operator \o <<" ">> \o value.s
        ELSE IF operator = <<"I", "N">>
        THEN column \o <<" ", "I", "N", " ", "(">>
             \o JoinWith([k \in 1..Len(value.items) |->
                             IF IsDigits(value.items[k]) THEN value.items[k]
                             ELSE InQuotes(value.items[k])], <<",", " ">>)
             \o <<")">>
        ELSE IF operator = <<"B", "E", "T", "W", "E", "E", "N">>
        THEN column \o <<" ", "B", "E", "T", "W", "E", "E", "N", " ">> \o value.min_val
             \o <<" ", "A", "N", "D", " ">> \o value.max_val
        ELSE IF operator = <<"L", "I", "K", "E">>
        THEN column \o <<" ", "L", "I", "K", "E", " ">> \o InQuotes(value.s)
        ELSE IF IsDigits(value.s)
        THEN column \o <<" ">> \o operator \o <<" ">> \o value.s
        ELSE column \o <<" ">> \o operator \o <<" ">> \o InQuotes(value.s)

\* a clause of the query when it has items: the keyword, then the items joined
Clause(keyword, items, sep) ==
    IF items = <<>> THEN <<>> ELSE <<keyword \o <<" ">> \o JoinWith(items, sep)>>

translate_select(parsed) ==
    LET tables == Get(parsed, "tables", <<>>)
        columns == Get(parsed, "columns", <<>>)
        conditions == Get(parsed, "conditions", <<>>)
        joins == Get(parsed, "joins", <<>>)
        group_by == Get(parsed, "group_by", <<>>)
        order_by == Get(parsed, "order_by", <<>>)
        limit == Get(parsed, "limit", None)
        parts == SelectParts(tables, columns)
        select_parts == IF parts = <<>> THEN <<<<"*">>>> ELSE parts
        joined == CrossJoins(tables,
                             JoinClauses(joins,
                                         [clauses |-> <<>>,
                                          processed |-> IF tables = <<>> THEN {}
                                                        ELSE {tables[1]}]))
        where_conditions == [k \in 1..Len(conditions) |->
                                WhereCondition(conditions[k],
                                               Dotted(conditions[k].table, conditions[k].column))]
        group_by_clauses == Flat([t \in 1..Len(group_by) |->
                                  [c \in 1..Len(group_by[t].val) |->
                                      Dotted(group_by[t].key, group_by[t].val[c])]])
        order_by_clauses == [k \in 1..Len(order_by) |->
                                Dotted(order_by[k].table, order_by[k].column) \o <<" ">>
                                \o order_by[k].direction]
        query_parts ==
            Clause(<<"S", "E", "L", "E", "C", "T">>, select_parts, <<",", " ">>)
            \o (IF tables = <<>> \/ tables[1] = <<>> THEN <<>>
                ELSE <<<<"F", "R", "O", "M", " ">> \o tables[1]>>)
            \o (IF joined.clauses = <<>> THEN <<>> ELSE <<JoinWith(joined.clauses, <<" ">>)>>)
            \o Clause(<<"W", "H", "E", "R", "E">>, where_conditions,
                      <<" ", "A", "N", "D", " ">>)
            \o Clause(<<"G", "R", "O", "U", "P", " ", "B", "Y">>, group_by_clauses, <<",", " ">>)
            \o Clause(<<"O", "R", "D", "E", "R", " ", "B", "Y">>, order_by_clauses, <<",", " ">>)
            \o (IF limit = None THEN <<>>
                ELSE <<<<"L", "I", "M", "I", "T", " ">> \o DigitsOf(limit.n)>>)
    IN JoinWith(query_parts, <<" ">>)

\* "INSERT not implemented yet" / "UPDATE not implemented yet"
NotImplemented(statement) ==
    statement \o <<" ", "n", "o", "t", " ", "i", "m", "p", "l", "e", "m", "e", "n", "t", "e", "d",
                   " ", "y", "e", "t">>

translate_delete(parsed) ==
    LET tables == Get(parsed, "tables", <<>>)
        conditions == Get(parsed, "conditions", <<>>)
        own == SelectSeq(conditions, LAMBDA cond : cond.table = tables[1])
        where_conditions == [k \in 1..Len(own) |-> WhereCondition(own[k], own[k].column)]
    IN IF tables = <<>> THEN Exc("ValueError", "Brak tabeli do usuniecia danych")
       ELSE StrVal(JoinWith(<<<<"D", "E", "L", "E", "T", "E", " ", "F", "R", "O", "M", " ">>
                                \o tables[1]>>
                              \o Clause(<<"W", "H", "E", "R", "E">>, where_conditions,
                                        <<" ", "A", "N", "D", " ">>),
                            <<" ">>))

\* SQLTranslator.translate: the SQL text, or the exception that leaves the call
SqlTranslate(parsed) ==
    LET action == Get(parsed, "action", "select")
    IN  IF action = "select" THEN StrVal(translate_select(parsed))
        ELSE IF action = "insert" THEN StrVal(NotImplemented(<<"I", "N", "S", "E", "R", "T">>))
        ELSE IF action = "update" THEN StrVal(NotImplemented(<<"U", "P", "D", "A", "T", "E">>))
        ELSE IF action = "delete" THEN translate_delete(parsed)
        ELSE Exc("ValueError", "Nieobslugiwana akcja SQL: " \o action)

----------------------------------------------------------------------------
(* The SQL domain: the catalog, its lookups, parse and translate *)

\* The databases a connection is opened on: the tables of sqlite_master in the order
\* of their creation, each with its columns and their declared types.
\* customers(id, name), orders(id, customer_id, total_amount)
ShopDb ==
    <<[key |-> <<"c", "u", "s", "t", "o", "m", "e", "r", "s">>,
       val |-> <<[key |-> <<"i", "d">>, val |-> <<"I", "N", "T", "E", "G", "E", "R">>],
                 [key |-> <<"n", "a", "m", "e">>, val |-> <<"T", "E", "X", "T">>]>>],
      [key |-> <<"o", "r", "d", "e", "r", "s">>,
       val |-> <<[key |-> <<"i", "d">>, val |-> <<"I", "N", "T", "E", "G", "E", "R">>],
                 [key |-> <<"c", "u", "s", "t", "o", "m", "e", "r", "_", "i", "d">>, val |-> <<"I", "N", "T", "E", "G", "E", "R">>],
                 [key |-> <<"t", "o", "t", "a", "l", "_", "a", "m", "o", "u", "n", "t">>, val |-> <<"R", "E", "A", "L">>]>>]>>

\* a table under its singular and its plural name
LogsDb ==
    <<[key |-> <<"l", "o", "g">>,
       val |-> <<[key |-> <<"i", "d">>, val |-> <<"I", "N", "T", "E", "G", "E", "R">>]>>],
      [key |-> <<"l", "o", "g", "s">>,
       val |-> <<[key |-> <<"i", "d">>, val |-> <<"I", "N", "T", "E", "G", "E", "R">>],
                 [key |-> <<"l", "o", "g", "_", "i", "d">>, val |-> <<"I", "N", "T", "E", "G", "E", "R">>]>>]>>

\* upper-case names
CapsDb ==
    <<[key |-> <<"B", "O", "R", "D", "E", "R">>,
       val |-> <<[key |-> <<"I", "D">>, val |-> <<"I", "N", "T", "E", "G", "E", "R">>]>>],
      [key |-> <<"O", "R", "D", "E", "R", "S">>,
       val |-> <<[key |-> <<"I", "D">>, val |-> <<"I", "N", "T", "E", "G", "E", "R">>],
                 [key |-> <<"B", "O", "R", "D", "E", "R", "_", "I", "D">>, val |-> <<"I", "N", "T", "E", "G", "E", "R">>]>>]>>

ItemsDb ==
    <<[key |-> <<"o", "r", "d", "e", "r", "_", "i", "t", "e", "m", "s">>,
       val |-> <<[key |-> <<"i", "d">>, val |-> <<"I", "N", "T", "E", "G", "E", "R">>],
                 [key |-> <<"i", "d", "_", "o", "r", "d", "e", "r">>, val |-> <<"I", "N", "T", "E", "G", "E", "R">>],
                 [key |-> <<"o", "r", "d", "e", "r", "_", "i", "d", "_", "m", "a", "i", "n">>, val |-> <<"I", "N", "T", "E", "G", "E", "R">>]>>]>>

\* product(id), customer(id), orders(id, customer_id): orders refers to customer,
\* product to nothing
StoreDb ==
    <<[key |-> <<"p", "r", "o", "d", "u", "c", "t">>,
       val |-> <<[key |-> <<"i", "d">>, val |-> <<"I", "N", "T", "E", "G", "E", "R">>]>>],
      [key |-> <<"c", "u", "s", "t", "o", "m", "e", "r">>,
       val |-> <<[key |-> <<"i", "d">>, val |-> <<"I", "N", "T", "E", "G", "E", "R">>]>>],
      [key |-> <<"o", "r", "d", "e", "r", "s">>,
       val |-> <<[key |-> <<"i", "d">>, val |-> <<"I", "N", "T", "E", "G", "E", "R">>],
                 [key |-> <<"c", "u", "s", "t", "o", "m", "e", "r", "_", "i", "d">>, val |-> <<"I", "N", "T", "E", "G", "E", "R">>]>>]>>

Databases == {ShopDb, LogsDb, CapsDb, ItemsDb, StoreDb}

\* how many calls that change the catalog the model follows
MaxChanges == 1

\* the synonyms the application registers
SynonymChoices == {<<"c", "u", "s", "t", "o", "m", "e", "r", "s">>, <<"k", "l", "i", "e", "n", "t", "o'", "w">>, <<"i", "d">>}

\* the names find_table is asked for
TableLookups ==
    {<<"c", "u", "s", "t", "o", "m", "e", "r", "s">>,
     <<"C", "u", "s", "t", "o", "m", "e", "r", "s">>,
     <<"c", "u", "s", "t", "o", "m", "e", "r">>,
     <<"o", "r", "d", "e", "r">>,
     <<"l", "o", "g", "s">>,
     <<"k", "l", "i", "e", "n", "t", "o'", "w">>}

\* the names find_column is asked for
ColumnLookups ==
    {<<"i", "d">>,
     <<"I", "D">>,
     <<"c", "u", "s", "t", "o", "m", "e", "r", "_", "i", "d">>,
     <<"t", "o", "t", "a", "l">>}

\* main.py 92: "pokaz. wszystkich kliento'w"
ShowAllCustomers ==
    <<"p", "o", "k", "a", "z.", " ", "w", "s", "z", "y", "s", "t", "k", "i", "c", "h", " ", "k", "l", "i", "e", "n", "t", "o'", "w">>

\* main.py 98: "pokaz. 5 najnowszych zamo'wien'"
ShowNewestOrders ==
    <<"p", "o", "k", "a", "z.", " ", "5", " ", "n", "a", "j", "n", "o", "w", "s", "z", "y", "c", "h", " ", "z", "a", "m", "o'", "w", "i", "e", "n'">>

\* the texts handed to parse
SqlTexts ==
    {ShowAllCustomers,
     ShowNewestOrders,
     <<"p", "o", "k", "a", "z.", " ", "3", " ", "n", "a", "j", "l", "e", "p", "s", "z", "y", "c", "h", " ", "k", "l", "i", "e", "n", "t", "o'", "w", " ", "z", " ", "n", "a", "j", "w", "i", "e,", "k", "s", "z", "a,", " ", "s", "u", "m", "a,", " ", "z", "a", "m", "o'", "w", "i", "e", "n'">>,
     <<"s", "h", "o", "w", " ", "c", "u", "s", "t", "o", "m", "e", "r", "s">>,
     <<"s", "h", "o", "w", " ", "o", "r", "d", "e", "r", "s", " ", "o", "r", "d", "e", "r", " ", "b", "y", " ", "t", "o", "t", "a", "l", "_", "a", "m", "o", "u", "n", "t", " ", "d", "e", "s", "c", " ", "l", "i", "m", "i", "t", " ", "5">>,
     <<"s", "h", "o", "w", " ", "f", "i", "r", "s", "t", " ", "5", " ", "c", "u", "s", "t", "o", "m", "e", "r", "s">>,
     <<"a", "d", "d", " ", "c", "u", "s", "t", "o", "m", "e", "r">>,
     <<"c", "o", "u", "n", "t", " ", "o", "r", "d", "e", "r", "s">>,
     <<"d", "e", "l", "e", "t", "e", " ", "o", "r", "d", "e", "r", "s", " ", "i", "d", " ", "=", " ", "5">>,
     <<"u", "s", "u", "n'", " ", "w", "s", "z", "y", "s", "t", "k", "o">>,
     <<"s", "h", "o", "w", " ", "p", "r", "o", "d", "u", "c", "t", " ", "c", "u", "s", "t", "o", "m", "e", "r", " ", "o", "r", "d", "e", "r", "s">>,
     <<"s", "h", "o", "w", " ", "c", "u", "s", "t", "o", "m", "e", "r", " ", "o", "r", "d", "e", "r", "s">>,
     <<"s", "h", "o", "w", " ", "5", " ", "f", "i", "r", "s", "t", " ", "o", "r", "d", "e", "r", "s">>,
     <<"u", "p", "d", "a", "t", "e", " ", "c", "u", "s", "t", "o", "m", "e", "r", "s">>}

StoredTables(s) == {s.tables[k].key : k \in 1..Len(s.tables)}

StoredColumns(s, table) ==
    LET names == get_column_names(s, table) IN {names[k] : k \in 1..Len(names)}

SqlIdle ==
    /\ spc = "idle"
    /\ sql_input = None
    /\ sql_intent = None
    /\ sql_query = None
    /\ sql_found = None
    /\ sql_raised = None

\* SQLSchema() as it is constructed, or loaded from a connection as initialize_module
\* does
SqlInit ==
    /\ schema \in {EmptySchema} \cup {load_from_connection(EmptySchema, db) : db \in Databases}
    /\ changes = 0
    /\ SqlIdle

SqlUnused ==
    /\ schema = EmptySchema
    /\ changes = 0
    /\ SqlIdle

\* schema.load_from_connection(connection)
CatLoad(db) ==
    /\ spc = "idle"
    /\ changes < MaxChanges
    /\ schema' = load_from_connection(schema, db)
    /\ changes' = changes + 1
    /\ UNCHANGED <<spc, sql_input, sql_intent, sql_query, sql_found, sql_raised>>

\* schema.add_table(table_name, columns)
CatAddTable(table_name, columns) ==
    /\ spc = "idle"
    /\ changes < MaxChanges
    /\ schema' = add_table(schema, table_name, columns)
    /\ changes' = changes + 1
    /\ UNCHANGED <<spc, sql_input, sql_intent, sql_query, sql_found, sql_raised>>

\* schema.add_table_synonym(table_name, synonym)
CatAddTableSynonym(table_name, synonym) ==
    /\ spc = "idle"
    /\ changes < MaxChanges
    /\ schema' = add_table_synonym(schema, table_name, synonym)
    /\ changes' = changes + 1
    /\ UNCHANGED <<spc, sql_input, sql_intent, sql_query, sql_found, sql_raised>>

\* schema.add_column_synonym(table_name, column_name, synonym)
CatAddColumnSynonym(table_name, column_name, synonym) ==
    /\ spc = "idle"
    /\ changes < MaxChanges
    /\ schema' = add_column_synonym(schema, table_name, column_name, synonym)
    /\ changes' = changes + 1
    /\ UNCHANGED <<spc, sql_input, sql_intent, sql_query, sql_found, sql_raised>>

\* schema.find_table(name)
CatFindTable(name) ==
    /\ spc = "idle"
    /\ spc' = "found"
    /\ sql_input' = [call |-> "find_table", args |-> <<name>>]
    /\ sql_found' = find_table(schema, name)
    /\ sql_intent' = None
    /\ sql_query' = None
    /\ sql_raised' = None
    /\ UNCHANGED <<schema, changes>>

\* schema.find_column(table_name, column_name)
CatFindColumn(table_name, column_name) ==
    /\ spc = "idle"
    /\ spc' = "found"
    /\ sql_input' = [call |-> "find_column", args |-> <<table_name, column_name>>]
    /\ sql_found' = find_column(schema, table_name, column_name)
    /\ sql_intent' = None
    /\ sql_query' = None
    /\ sql_raised' = None
    /\ UNCHANGED <<schema, changes>>

\* parser.parse(input_text)
SqlParseCall(typed) ==
    /\ spc = "idle"
    /\ sql_input' = [call |-> "parse", args |-> <<typed>>]
    /\ LET out == SqlParse(schema, typed)
       IN IF "kind" \in DOMAIN out
          THEN /\ sql_raised' = out
               /\ spc' = "raised"
               /\ sql_intent' = None
          ELSE /\ sql_intent' = out
               /\ spc' = "parsed"
               /\ sql_raised' = None
    /\ sql_query' = None
    /\ sql_found' = None
    /\ UNCHANGED <<schema, changes>>

\* translator.translate(parsed_data) on what parse returned
SqlTranslateCall ==
    /\ spc = "parsed"
    /\ LET out == SqlTranslate(sql_intent)
       IN IF out.kind = "exc"
          THEN /\ sql_raised' = out
               /\ spc' = "raised"
               /\ UNCHANGED sql_query
          ELSE /\ sql_query' = out
               /\ spc' = "translated"
               /\ UNCHANGED sql_raised
    /\ UNCHANGED <<schema, changes, sql_input, sql_intent, sql_found>>

\* control is back at the caller
SqlReturn ==
    /\ spc \in {"found", "translated", "raised"}
    /\ spc' = "idle"
    /\ sql_input' = None
    /\ sql_intent' = None
    /\ sql_query' = None
    /\ sql_found' = None
    /\ sql_raised' = None
    /\ UNCHANGED <<schema, changes>>

RECURSIVE Glue(_)
\* the characters of a word as one lexeme
Glue(chars) == IF chars = <<>> THEN "" ELSE Head(chars) \o Glue(Tail(chars))

RECURSIVE Spaced(_)
\* the words as lexemes with a blank lexeme between two of them
Spaced(words) ==
    IF words = <<>> THEN <<>>
    ELSE IF Len(words) = 1 THEN <<Glue(words[1])>>
    ELSE <<Glue(words[1]), " ">> \o Spaced(Tail(words))

\* the str the translator returned as the executor reads it: the same text, its words
\* as lexemes
AsQuery(chars) == Spaced(SplitBlank(chars))

\* the commands of the feature gap (insert, update) and one whose translation raises
GapTexts ==
    {<<"a", "d", "d", " ", "c", "u", "s", "t", "o", "m", "e", "r">>,
     <<"u", "p", "d", "a", "t", "e", " ", "c", "u", "s", "t", "o", "m", "e", "r", "s">>,
     <<"c", "o", "u", "n", "t", " ", "o", "r", "d", "e", "r", "s">>}

\* DialogWareProcessor.process: result = executor.execute(dsl_command) with what
\* translate returned; the call enters SQLExecutor.execute
SqlProcessExecute ==
    /\ spc = "translated"
    /\ ExecCall(AsQuery(sql_query.s))
    /\ spc' = "executing"
    /\ UNCHANGED <<schema, changes, sql_input, sql_intent, sql_query, sql_found, sql_raised>>

\* DialogWareProcessor.process: the CommandResult, of the except branch when parse,
\* translate or execute raised
SqlProcessResult ==
    /\ \/ /\ spc = "raised"
          /\ sql_found' = FailureResult(sql_raised)
          /\ UNCHANGED <<execVars, sql_raised>>
       \/ /\ spc = "executing"
          /\ xpc = "raised"
          /\ sql_found' = FailureResult(xraised)
          /\ sql_raised' = xraised
          /\ ExecExit
       \/ /\ spc = "executing"
          /\ xpc = "returned"
          /\ sql_found' = CommandResult(TRUE, xresult, None,
                 <<[stage |-> "parsing", input |-> PyStr(sql_input.args[1]),
                    output |-> sql_intent],
                   [stage |-> "translation", input |-> sql_intent, output |-> sql_query],
                   [stage |-> "execution", input |-> sql_query, output |-> xresult]>>)
          /\ UNCHANGED sql_raised
          /\ ExecExit
    /\ spc' = "result"
    /\ UNCHANGED <<schema, changes, sql_input, sql_intent, sql_query>>

\* the caller has the CommandResult
SqlProcessExit ==
    /\ spc = "result"
    /\ spc' = "idle"
    /\ sql_input' = None
    /\ sql_intent' = None
    /\ sql_query' = None
    /\ sql_found' = None
    /\ sql_raised' = None
    /\ UNCHANGED <<schema, changes, execVars>>

\* process() in the SQL domain: parse, translate and SQLExecutor.execute on the
\* commands of the feature gap
SqlProcessNext ==
    \/ SetConnection /\ UNCHANGED <<procVars, pipeVars, copyVars, qryVars, sqlVars>>
    \/ CloseConnection /\ UNCHANGED <<procVars, pipeVars, copyVars, qryVars, sqlVars>>
    \/ ((\E typed \in GapTexts : SqlParseCall(typed)) /\ xpc = "idle")
          /\ UNCHANGED <<procVars, pipeVars, copyVars, qryVars, execVars>>
    \/ SqlTranslateCall /\ UNCHANGED <<procVars, pipeVars, copyVars, qryVars, execVars>>
    \/ SqlProcessExecute /\ UNCHANGED <<procVars, pipeVars, copyVars, qryVars>>
    \/ (ExecCursor /\ spc = "executing")
          /\ UNCHANGED <<procVars, pipeVars, copyVars, qryVars, sqlVars>>
    \/ (ExecStatement /\ spc = "executing")
          /\ UNCHANGED <<procVars, pipeVars, copyVars, qryVars, sqlVars>>
    \/ (ExecExcept /\ spc = "executing")
          /\ UNCHANGED <<procVars, pipeVars, copyVars, qryVars, sqlVars>>
    \/ SqlProcessResult /\ UNCHANGED <<procVars, pipeVars, copyVars, qryVars>>
    \/ SqlProcessExit /\ UNCHANGED <<procVars, pipeVars, copyVars, qryVars>>

\* the catalog and its lookups
CatNext ==
    \/ (\E db \in Databases : CatLoad(db))
          /\ UNCHANGED <<procVars, pipeVars, copyVars, qryVars, execVars>>
    \/ (\E db \in Databases : \E k \in 1..Len(db) : CatAddTable(db[k].key, db[k].val))
          /\ UNCHANGED <<procVars, pipeVars, copyVars, qryVars, execVars>>
    \/ (\E t \in StoredTables(schema) : \E syn \in SynonymChoices : CatAddTableSynonym(t, syn))
          /\ UNCHANGED <<procVars, pipeVars, copyVars, qryVars, execVars>>
    \/ (\E t \in StoredTables(schema) : \E c \in StoredColumns(schema, t) :
            \E syn \in SynonymChoices : CatAddColumnSynonym(t, c, syn))
          /\ UNCHANGED <<procVars, pipeVars, copyVars, qryVars, execVars>>
    \/ (\E name \in TableLookups : CatFindTable(name))
          /\ UNCHANGED <<procVars, pipeVars, copyVars, qryVars, execVars>>
    \/ (\E t \in StoredTables(schema) : \E name \in ColumnLookups : CatFindColumn(t, name))
          /\ UNCHANGED <<procVars, pipeVars, copyVars, qryVars, execVars>>
    \/ SqlReturn /\ UNCHANGED <<procVars, pipeVars, copyVars, qryVars, execVars>>

\* parse and translate on the catalog the module was initialised with, which the
\* application may extend with synonyms
SqlNext ==
    \/ (\E t \in StoredTables(schema) : \E syn \in SynonymChoices : CatAddTableSynonym(t, syn))
          /\ UNCHANGED <<procVars, pipeVars, copyVars, qryVars, execVars>>
    \/ (\E typed \in SqlTexts : SqlParseCall(typed))
          /\ UNCHANGED <<procVars, pipeVars, copyVars, qryVars, execVars>>
    \/ SqlTranslateCall /\ UNCHANGED <<procVars, pipeVars, copyVars, qryVars, execVars>>
    \/ SqlReturn /\ UNCHANGED <<procVars, pipeVars, copyVars, qryVars, execVars>>

----------------------------------------------------------------------------
(* Specifications *)

Init == ProcInit /\ PipeInit /\ CopyUnused /\ QryUnused /\ ExecUnused /\ SqlUnused

InitCopy == ProcInit /\ PipeInit /\ CopyInit /\ QryUnused /\ ExecUnused /\ SqlUnused

InitQry == ProcInit /\ PipeInit /\ CopyUnused /\ QryInit /\ ExecUnused /\ SqlUnused

InitExec == ProcInit /\ PipeInit /\ CopyUnused /\ QryUnused /\ ExecInit /\ SqlUnused

SpecExec == InitExec /\ [][ExecNext]_vars

InitSql == ProcInit /\ PipeInit /\ CopyUnused /\ QryUnused /\ ExecUnused /\ SqlInit

SpecCat == InitSql /\ [][CatNext]_vars

SpecSql == InitSql /\ [][SqlNext]_vars

InitSqlProcess == ProcInit /\ PipeInit /\ CopyUnused /\ QryUnused /\ ExecInit /\ SqlInit

SpecSqlProcess == InitSqlProcess /\ [][SqlProcessNext]_vars

SpecFile == InitQry /\ [][FileNext]_vars

SpecQry == InitQry /\ [][QryNext]_vars

SpecCopy == InitCopy /\ [][CopyNext]_vars

SpecProc == Init /\ [][ProcNext]_vars

SpecPipe == Init /\ [][PipeNext]_vars

----------------------------------------------------------------------------
(* Properties of process *)

StageOrder == <<"parsing", "translation", "execution">>

IsPrefix(s, t) == Len(s) <= Len(t) /\ \A i \in 1..Len(s) : s[i] = t[i]

OnlyFileSqlRegistered == (parsers \cup translators \cup executors) \subseteq {"file", "sql"}

\* C1: whatever the text and the domain, an exception raised by a registry lookup or
\* by a stage never leaves process(); the call returns a CommandResult with
\* success = False and an error that is not None.
C1_ExceptionsBecomeFailedResults ==
    /\ pc # "escaped"
    /\ (pc = "done" /\ raised # None) =>
          /\ result # None
          /\ result.success = FALSE
          /\ result.error # None

C1_Witness ==
    /\ pc = "done"
    /\ raised \in StageErrors
    /\ calls = StageOrder
    /\ result.success = FALSE

\* C2: a returned CommandResult with success = False has data None and an error
\* that is not None.
C2_EnvelopeInvariant ==
    (pc = "done" /\ result.success = FALSE) =>
        /\ result.data = None
        /\ result.error # None

C2_Witness ==
    /\ pc = "done"
    /\ result.success = FALSE
    /\ parsed_data # None
    /\ dsl_command # None

\* C3: the returned result's execution log has exactly one record per stage that was
\* started, in stage order (three on success, k when stage k raised).
C3_OneTraceRecordPerStageAttempted ==
    pc = "done" =>
        /\ Len(result.execution_log) = Len(calls)
        /\ \A i \in 1..Len(calls) : result.execution_log[i].stage = calls[i]

\* the calls made so far are a prefix of parse, translate, execute; a failed lookup
\* leaves no call; the error of a failed result is str() of the exception raised
C4_State ==
    /\ IsPrefix(calls, StageOrder)
    /\ (raised # None /\ raised.type = "KeyError") => calls = <<>>
    /\ (pc = "done" /\ raised # None) => result.error = PyStr(ExcStr(raised))
    /\ (pc = "done" /\ raised = None) => calls = StageOrder

\* after an exception no stage is called again in this call
C4_Step == (raised # None /\ pc' # "idle") => calls' = calls

\* C4: the stages run in the order parse, translate, execute, each at most once; once
\* the lookup or a stage has raised no further stage call is made, and the result's
\* error is str() of that exception.
C4_StagesInOrderNoRetry == [](C4_State) /\ [][C4_Step]_vars

C4_Witness ==
    /\ pc = "done"
    /\ raised \in StageErrors
    /\ calls = <<"parsing", "translation">>

C6_NoDomainFileSearchReturnsList ==
    ( /\ pc = "done"
      /\ domain_arg = None
      /\ OnlyFileSqlRegistered
      /\ "file" \in parsers \cap translators \cap executors
      /\ input_text = "znajdz wszystkie pliki PDF" ) =>
        /\ domain = "file"
        /\ result.success = TRUE
        /\ result.data.kind = "list"

----------------------------------------------------------------------------
(* Properties of Pipeline.execute *)

\* C7: execute calls the elements in the order they were added, each position once,
\* handing element i+1 what element i returned; it returns the last element's value
\* (its input when there are no elements); when an element raises, no later element
\* is called and the exception reaches the caller.
C7_StepsRunInOrderThreadingPayload ==
    ppc # "idle" =>
        /\ Len(invoked) <= Len(elements)
        /\ \A i \in 1..Len(invoked) :
              /\ invoked[i].pos = i
              /\ invoked[i].element = elements[i]
              /\ invoked[i].arg = IF i = 1 THEN input_data ELSE invoked[i - 1].out
              /\ invoked[i].raised => i = Len(invoked) /\ ppc = "raised"
        /\ ppc = "returned" =>
              /\ Len(invoked) = Len(elements)
              /\ returned = IF elements = <<>> THEN input_data
                            ELSE invoked[Len(elements)].out
        /\ ppc = "raised" =>
              /\ invoked # <<>>
              /\ invoked[Len(invoked)].raised
              /\ propagated # None
              /\ returned = None

C7_Witness ==
    /\ ppc = "raised"
    /\ Len(elements) = 3
    /\ Len(invoked) = 2
    /\ invoked[1].out # input_data

\* C8: when execute has returned or raised, the trace holds only this call's
\* records: in debug mode one per element started, in element order, all "success"
\* but a last "error" for an element that raised; without debug mode none.
C8_TraceIsThisCallOnly ==
    ppc \in {"returned", "raised"} =>
        IF debug_mode
        THEN /\ Len(execution_trace) = Len(invoked)
             /\ \A i \in 1..Len(execution_trace) :
                   /\ execution_trace[i].element = ElementName(elements[i])
                   /\ execution_trace[i].status =
                         IF i = Len(invoked) /\ ppc = "raised" THEN "error" ELSE "success"
        ELSE execution_trace = <<>>

C8_Witness ==
    /\ ppc = "raised"
    /\ debug_mode
    /\ Len(execution_trace) = 3
    /\ execution_trace[3].status = "error"

\* C9: in debug mode the trace record of element i has as input the value element i
\* was handed and as output the value it returned.
C9_TraceRecordsReceivedPayload ==
    (ppc # "idle" /\ debug_mode) =>
        \A i \in 1..Len(execution_trace) :
            /\ execution_trace[i].input = invoked[i].arg
            /\ ~invoked[i].raised => execution_trace[i].output = invoked[i].out

----------------------------------------------------------------------------
(* Properties of the chained copy_to *)

\* whether the copy of files[k] fails, told from the filesystem the call found:
\* the destination is a regular file, the source is missing or unreadable, or the
\* source is a directory whose destination path is taken (from the start, or by an
\* earlier source of the same base name)
FailsToCopy(k) ==
    LET source == files[k]
        dest_path == Join(destination, Basename(source))
    IN \/ fs_at_call[destination].kind = "file"
       \/ ~Exists(fs_at_call, source)
       \/ source \in unreadable
       \/ /\ IsDir(fs_at_call, source)
          /\ \/ Exists(fs_at_call, dest_path)
             \/ \E j \in 1..(k - 1) :
                   /\ Basename(files[j]) = Basename(source)
                   /\ Exists(fs_at_call, files[j])
                   /\ files[j] \notin unreadable

RECURSIVE SourcesWhere(_, _)
\* the sources at the first n positions of files that fail (want = TRUE) or copy
\* (want = FALSE), in list order
SourcesWhere(n, want) ==
    IF n = 0 THEN <<>>
    ELSE IF FailsToCopy(n) = want
         THEN Append(SourcesWhere(n - 1, want), files[n])
         ELSE SourcesWhere(n - 1, want)

\* C10: copy_to over N sources of which M fail returns count = N-M, M errors, status
\* "partial" when M > 0 and "success" when M = 0; every source that can be copied is
\* copied to destination/basename wherever the failing ones sit. The call raises only
\* when the destination directory cannot be created, before any source is touched.
C10_CopyToCollectsPerFileErrors ==
    /\ cpc = "returned" =>
          LET N == Len(files)
              M == Cardinality({k \in 1..N : FailsToCopy(k)})
              ok == SourcesWhere(N, FALSE)
              bad == SourcesWhere(N, TRUE)
          IN /\ copy_result.count = N - M
             /\ Len(copy_result.errors) = M
             /\ copy_result.status = IF M > 0 THEN "partial" ELSE "success"
             /\ Len(copy_result.copied) = N - M
             /\ \A i \in 1..(N - M) :
                   /\ copy_result.copied[i].source = ok[i]
                   /\ copy_result.copied[i].destination = Join(destination, Basename(ok[i]))
                   /\ Exists(fs, Join(destination, Basename(ok[i])))
                   /\ (\A j \in (i + 1)..(N - M) : Basename(ok[j]) # Basename(ok[i]))
                         => fs[Join(destination, Basename(ok[i]))] = fs_at_call[ok[i]]
             /\ \A i \in 1..M : copy_result.errors[i].source = bad[i]
    /\ cpc = "raised" =>
          /\ ~Exists(fs_at_call, destination)
          /\ ~creatable
          /\ fs = fs_at_call

C10_Witness ==
    /\ cpc = "returned"
    /\ Len(files) = 3
    /\ copy_result.status = "partial"
    /\ copy_result.count = 2
    /\ Len(copy_result.errors) = 1
    /\ copy_result.errors[1].source = files[1]

\* C11: a bulk copy reports status "warning" when the selection it operates on is
\* empty, "partial" when at least one per-file error occurred and "success"
\* otherwise; stated for the chained copy_to.
C11_StatusWarningPartialSuccess ==
    cpc = "returned" =>
        copy_result.status = IF files = <<>> THEN "warning"
                             ELSE IF copy_result.errors # <<>> THEN "partial"
                             ELSE "success"

----------------------------------------------------------------------------
(* Properties of the file domain *)

\* the elements of a list
Elements(seq) == {seq[k] : k \in 1..Len(seq)}

\* what the where predicate written as text says of the file at path: a size or
\* age comparison, content_contains('t'), modified_in('p') (text is what stands
\* between "where(" and the first ")")
PredicateHolds(dir, path, text) ==
    LET file == FileAt(dir, path)
        words == SplitBlank(text)
    IN \/ /\ Len(words) = 3
          /\ words[1] = <<"size">>
          /\ IsFloat(words[3])
          /\ SizeTest(words[2], file.size * 10, FloatOf(words[3]))
       \/ /\ Len(words) = 4
          /\ words[1] = <<"modified">>
          /\ IsFloat(words[3])
          /\ AgeTest(words[2], file.age, FloatOf(words[3]), words[4])
       \/ /\ Len(text) >= 5
          /\ SubSeq(text, 1, 3) = <<"content_contains", "(", "'">>
          /\ text[Len(text)] = "'"
          /\ SubSeq(text, 4, Len(text) - 1) \in file.holds
       \/ /\ Len(text) = 5
          /\ SubSeq(text, 1, 3) = <<"modified_in", "(", "'">>
          /\ text[5] = "'"
          /\ text[4] \in file.periods

\* C12: for every path list and every where predicate that no file of the list
\* satisfies, the where chain action returns an empty list and never raises.
C12_WhereWithoutMatchesIsEmpty ==
    /\ \A k \in 1..Len(chain_log) :
          (/\ chain_log[k].given.kind = "list"
           /\ \A path \in Elements(chain_log[k].given.items) :
                 ~PredicateHolds(listing, path, chain_log[k].text))
          => chain_log[k].out = ListVal(<<>>)
    /\ (qpc = "raised" /\ qparts # None /\ qidx >= 1 /\ qresult.kind = "list")
          => qparts.chain_actions[qidx].action # "where"

\* the files of the directory that one of the patterns matches and whose size
\* compares to n as op says
ExpectedBySize(patterns, op, n) ==
    {AbsPath(FileNames[k]) : k \in {k \in 1..Len(FileNames) :
        /\ \E i \in 1..Len(patterns) : GlobMatch(patterns[i], FileNames[k])
        /\ CASE op = <<">">> -> listing[k].size > n
             [] op = <<"<">> -> listing[k].size < n
             [] op = <<"=", "=">> -> listing[k].size = n
             [] op = <<">", "=">> -> listing[k].size >= n
             [] op = <<"<", "=">> -> listing[k].size <= n}}

C14_TranslateOfParseIsDeterministic ==
    \A e1 \in emitted, e2 \in emitted : e1[1] = e2[1] => e1[2] = e2[2]

\* the files of the directory whose last modification is more (older = TRUE) or
\* less (older = FALSE) than n days back
ExpectedByAge(older, n) ==
    {AbsPath(FileNames[k]) : k \in {k \in 1..Len(FileNames) :
        IF older THEN listing[k].age > n * SecondsPerDay
        ELSE listing[k].age < n * SecondsPerDay}}

\* C20: "starsze niz 7 dni" (older than 7 days) selects, through parse, translate
\* and execute, exactly the files modified more than 7 days ago, and "newer than
\* 7 days" exactly those modified less than 7 days ago.
C20_OlderAndNewerSelectByAge ==
    qpc = "returned" =>
        /\ Contains(qtext, <<"starsze", " ", "niz", " ", "7", " ", "dni">>)
              => Elements(Iterated(qresult)) = ExpectedByAge(TRUE, 7)
        /\ Contains(qtext, <<"newer", " ", "than", " ", "7", " ", "days">>)
              => Elements(Iterated(qresult)) = ExpectedByAge(FALSE, 7)

----------------------------------------------------------------------------
(* Properties of SQLExecutor *)

\* C19: whenever cursor creation, statement execution, row fetching or commit raises
\* inside execute, the connection is rolled back, last_result is the error marker of
\* that exception, the same exception object leaves the call, and the committed
\* content of the database is what it was when the call started.
C19_FailureRollsBackMarksAndReraises ==
    (xpc = "raised" /\ caught # None) =>
        /\ rolled_back
        /\ last_result = ErrorMarker(caught)
        /\ xraised = caught
        /\ committed = db_at_call

----------------------------------------------------------------------------
(* Properties of the SQL catalog *)

\* C17: for every table name stored in the catalog and every column of that table,
\* find_table gives the table name and find_column the column name back, whatever
\* synonyms are registered: the exact match comes before synonyms and similarity.
C17_ExactMatchTakesPrecedence ==
    \A t \in 1..Len(schema.tables) :
        /\ find_table(schema, schema.tables[t].key) = StrVal(schema.tables[t].key)
        /\ \A c \in 1..Len(schema.tables[t].val) :
              find_column(schema, schema.tables[t].key, schema.tables[t].val[c].key)
                  = StrVal(schema.tables[t].val[c].key)

\* find_table was asked for a stored table name that is also a registered synonym of
\* another table, and gave the stored name back
C17_Witness ==
    /\ spc = "found"
    /\ sql_input.call = "find_table"
    /\ DictHas(schema.tables, sql_input.args[1])
    /\ \E i \in 1..Len(schema.synonyms.tables) :
          /\ schema.synonyms.tables[i].key # sql_input.args[1]
          /\ InList(sql_input.args[1], schema.synonyms.tables[i].val)
    /\ sql_found = StrVal(sql_input.args[1])

\* the other form of a table name: without its final s, or with an s added
Variant(name) ==
    IF EndsWith(name, <<"s">>) THEN SubSeq(name, 1, Len(name) - 1) ELSE name \o <<"s">>

\* the catalog is what load_from_connection makes of one database
Introspected == \E db \in Databases : schema = load_from_connection(EmptySchema, db)

\* C18: in a catalog introspected from a database, find_table called with the singular
\* or plural variant of a table's name returns that table's stored name, also when
\* another table's name or synonym is similar.
C18_VariantResolvesToStoredName ==
    Introspected =>
        \A t \in 1..Len(schema.tables) :
            find_table(schema, Variant(schema.tables[t].key)) = StrVal(schema.tables[t].key)

----------------------------------------------------------------------------
(* Properties of parse and translate *)

\* the catalog holds customers(id, name) and orders(id, customer_id, total_amount)
ShopCatalog == schema.tables = load_from_connection(EmptySchema, ShopDb).tables

\* parse was called with the text and has ended
Parsed(typed) ==
    /\ spc \in {"parsed", "translated", "raised"}
    /\ sql_input = [call |-> "parse", args |-> <<typed>>]

\* C15: on the catalog with customers(id, name) and orders(id, customer_id,
\* total_amount) the text "pokaz. wszystkich kliento'w" parses to the action select with
\* tables = [customers], and translates to exactly SELECT customers.* FROM customers.
C15_ShowAllCustomers ==
    (ShopCatalog /\ Parsed(ShowAllCustomers)) =>
        /\ spc # "raised"
        /\ sql_intent.action = "select"
        /\ sql_intent.tables = <<<<"c", "u", "s", "t", "o", "m", "e", "r", "s">>>>
        /\ spc = "translated" =>
              sql_query = StrVal(<<"S", "E", "L", "E", "C", "T", " ",
                                   "c", "u", "s", "t", "o", "m", "e", "r", "s", ".", "*", " ",
                                   "F", "R", "O", "M", " ",
                                   "c", "u", "s", "t", "o", "m", "e", "r", "s">>)

\* C16: on the same catalog the text "pokaz. 5 najnowszych zamo'wien'" parses to
\* tables = [orders], limit = 5 and an ORDER BY in descending direction.
C16_ShowNewestOrders ==
    (ShopCatalog /\ Parsed(ShowNewestOrders)) =>
        /\ spc # "raised"
        /\ sql_intent.tables = <<<<"o", "r", "d", "e", "r", "s">>>>
        /\ sql_intent.limit = IntVal(5)
        /\ sql_intent.order_by # <<>>
        /\ \A k \in 1..Len(sql_intent.order_by) :
              sql_intent.order_by[k].direction = <<"D", "E", "S", "C">>

----------------------------------------------------------------------------
(* Properties of the file domain: copy, move and the DSL contract *)

\* the copy2 and move calls that the operations named in ops have made
TransferCalls(ops) ==
    SelectSeq(fs_calls, LAMBDA c : c.by \in ops /\ c.call \in {"copy2", "move"})

\* the copy and move actions of the intent, in order
Requested ==
    SelectSeq(intent.additional_actions, LAMBDA a : a.action \in {"copy", "move"})

\* C21: a primary copy or move operation copies or moves exactly the files that
\* the paths and patterns written in the DSL select, into the destination the
\* command states, and touches no file outside that selection.
C21_PrimaryTransferTouchesSelectionOnly ==
    (qpc \in {"chain", "returned"} /\ qparts # None /\ qparts.operation \in {"copy", "move"}) =>
        LET made == TransferCalls({"copy", "move"})
        IN /\ {made[k].source : k \in {k \in 1..Len(made) : made[k].ok}}
                 = Elements(find_files(qparts))
           /\ \A k \in 1..Len(made) : made[k].source \in Elements(find_files(qparts))
           /\ intent # None =>
                 \A k \in 1..Len(made) : \E a \in 1..Len(Requested) :
                     made[k].dest \in {Requested[a].target,
                                       PathJoin(Requested[a].target,
                                                PathBasename(made[k].source))}

\* the where texts content_contains('t' and modified_in('p' (what stands between
\* "where(" and the first ")")
IsNamedFilter(text) ==
    Len(text) >= 5 /\ text[1] \in {"content_contains", "modified_in"} /\ text[2] = "("

\* C22: for an intent with a content filter or a named-period filter, executing
\* the DSL the translator emits returns exactly those files of the running result
\* whose content contains the text, respectively whose modification time falls in
\* the period.
C22_NamedFiltersSelect ==
    \A k \in 1..Len(chain_log) :
        (/\ intent # None
         /\ chain_log[k].given.kind = "list"
         /\ IsNamedFilter(chain_log[k].text))
        => chain_log[k].out
              = ListVal(SelectSeq(chain_log[k].given.items,
                    LAMBDA path : PredicateHolds(listing, path, chain_log[k].text)))

\* C23: what the executor recovers by re-parsing translate(intent) equals the
\* intent: the operation, the paths and patterns (the default pattern "*" standing
\* for an intent that names neither), and the destination of each copy or move
\* action, so that copy_to and move_to write into the directory the intent names.
C23_DslRoundTrips ==
    (intent # None /\ qparts # None) =>
        LET got == SelectSeq(qparts.chain_actions,
                             LAMBDA a : a.action \in {"copy_to", "move_to"})
            made == TransferCalls({"copy_to", "move_to"})
        IN /\ qparts.operation = intent.operation
           /\ IF intent.paths = <<>> /\ intent.patterns = <<>>
              THEN qparts.params = <<StrVal(<<"*">>)>>
              ELSE qparts.params = <<ListVal(intent.paths), ListVal(intent.patterns)>>
           /\ Len(got) = Len(Requested)
           /\ \A k \in 1..Len(got) :
                 /\ got[k].action = Requested[k].action \o "_to"
                 /\ got[k].params = <<StrVal(Requested[k].target)>>
           /\ \A k \in 1..Len(made) : \E a \in 1..Len(Requested) :
                 made[k].dest = PathJoin(Requested[a].target, PathBasename(made[k].source))

\* the names execute handles as chain actions
ChainNames == {"where", "copy_to", "move_to", "convert_to"}

\* a DSL text execute has to refuse: it does not begin with name(, or names a
\* primary operation or a chain action that execute does not know
Malformed(command) ==
    \/ DslSyntaxError(command)
    \/ parse_dsl(command).operation \notin Operations
    \/ \E k \in 1..Len(parse_dsl(command).chain_actions) :
          parse_dsl(command).chain_actions[k].action \notin ChainNames

\* C24: execute raises, before any filesystem effect, for DSL text that does not
\* begin with name(, for a primary operation outside find/list/create/delete/copy/
\* move/modify, and for a chain action outside where/copy_to/move_to/convert_to.
C24_ExecuteRefusesMalformedDsl ==
    (qpc \in {"chain", "returned", "raised"} /\ Malformed(qcommand)) =>
        /\ qpc = "raised"
        /\ fs_calls = <<>>

----------------------------------------------------------------------------
(* Properties of the SQL domain: joins, fuzzy lookups, feature gaps and limits *)

\* the tables named by a query dict, as a set
QueryTables(query) == {query.tables[k] : k \in 1..Len(query.tables)}

\* how often a table stands in the FROM/JOIN part of the SQL text: behind FROM or
\* JOIN, as a whole word
Mentions(sql, table) ==
    Cardinality({i \in 1..Len(sql) :
                    /\ \/ StandsAt(sql, i, <<"F", "R", "O", "M", " ">> \o table)
                       \/ StandsAt(sql, i, <<"J", "O", "I", "N", " ">> \o table)
                    /\ \/ i + 5 + Len(table) > Len(sql)
                       \/ sql[i + 5 + Len(table)] = " "})

\* the table stands behind CROSS JOIN, as a whole word
RenderedAsCrossJoin(sql, table) ==
    LET piece == <<"C", "R", "O", "S", "S", " ", "J", "O", "I", "N", " ">> \o table
    IN EndsWith(sql, piece) \/ Contains(sql, piece \o <<" ">>)

\* a join of the query dict links the table to another table of the query
Linked(query, table) ==
    \E k \in 1..Len(query.joins) :
        \/ query.joins[k].from_table = table
              /\ query.joins[k].to_table \in QueryTables(query) \ {table}
        \/ query.joins[k].to_table = table
              /\ query.joins[k].from_table \in QueryTables(query) \ {table}

\* C25: in a translated SELECT every table of the intent stands exactly once in the
\* FROM/JOIN part, and a table stands behind CROSS JOIN only if no join of the intent
\* links it to another table of the query.
C25_CrossJoinOnlyWithoutRelationship ==
    (spc = "translated" /\ sql_intent.action = "select") =>
        \A table \in QueryTables(sql_intent) :
            /\ Mentions(sql_query.s, table) = 1
            /\ RenderedAsCrossJoin(sql_query.s, table) => ~Linked(sql_intent, table)

\* the candidates of find_table's fuzzy stage in the order they are evaluated: the
\* stored names, then the synonyms
TableCandidates(s) ==
    [k \in 1..Len(s.tables) |-> [text |-> s.tables[k].key, name |-> s.tables[k].key]]
    \o SynonymCandidates(s.synonyms.tables)

\* the candidates of find_column's fuzzy stage: the columns of the table, then the
\* synonyms registered for columns of the table
ColumnCandidates(s, table) ==
    LET columns == DictGet(s.tables, table, <<>>)
        own == SynonymCandidates(
                   SelectSeq(s.synonyms.columns,
                             LAMBDA item : StartsWith(item.key, table \o <<".">>)))
    IN [k \in 1..Len(columns) |-> [text |-> columns[k].key, name |-> columns[k].key]]
       \o [k \in 1..Len(own) |-> [text |-> own[k].text, name |-> AfterDot(own[k].name)]]

\* the candidates that reach the threshold with a ratio no other candidate exceeds
Closest(name, candidates) ==
    Bind([k \in 1..Len(candidates) |-> Ratio(name, candidates[k].text)],
         LAMBDA ratios :
             {k \in 1..Len(candidates) :
                 /\ AtLeast(ratios[k], Threshold)
                 /\ \A j \in 1..Len(candidates) : AtLeast(ratios[k], ratios[j])})

\* what the fuzzy stage is to return: the earliest of the closest candidates
FuzzyExpected(name, candidates) ==
    Bind(Closest(name, candidates),
         LAMBDA closest : IF closest = {} THEN None
                          ELSE StrVal(candidates[Least(closest)].name))

\* the items of a synonym dict that list the name
SynonymHits(syn, name) == {i \in 1..Len(syn) : InList(name, syn[i].val)}

\* the lookup went through to the fuzzy stage: no exact and no synonym match
FuzzyStage ==
    /\ spc = "found"
    /\ \/ /\ sql_input.call = "find_table"
          /\ ~DictHas(schema.tables, LowerChars(sql_input.args[1]))
          /\ SynonymHits(schema.synonyms.tables, LowerChars(sql_input.args[1])) = {}
       \/ /\ sql_input.call = "find_column"
          /\ DictHas(schema.tables, LowerChars(sql_input.args[1]))
          /\ ~InList(LowerChars(sql_input.args[2]),
                     get_column_names(schema, sql_input.args[1]))
          /\ SynonymHits(schema.synonyms.columns, LowerChars(sql_input.args[2])) = {}
          /\ ~DictHas(schema.synonyms.columns,
                      ColumnKey(LowerChars(sql_input.args[1]), LowerChars(sql_input.args[2])))

\* C26: find_table and find_column return the exact match when there is one, else
\* the name the first matching synonym is registered for, and else the earliest
\* evaluated candidate (stored names before synonyms) of the highest ratio, provided
\* that ratio is at least 0.7, and None when no candidate reaches 0.7.
C26_LookupStages ==
    /\ (spc = "found" /\ sql_input.call = "find_table") =>
           LET name == LowerChars(sql_input.args[1])
               syn == schema.synonyms.tables
               hits == SynonymHits(syn, name)
           IN IF DictHas(schema.tables, name) THEN sql_found = StrVal(name)
              ELSE IF hits # {} THEN sql_found = StrVal(syn[Least(hits)].key)
              ELSE sql_found = FuzzyExpected(name, TableCandidates(schema))
    /\ (spc = "found" /\ sql_input.call = "find_column"
            /\ DictHas(schema.tables, LowerChars(sql_input.args[1]))) =>
           LET table == LowerChars(sql_input.args[1])
               name == LowerChars(sql_input.args[2])
               syn == schema.synonyms.columns
               hits == SynonymHits(syn, name)
                           \cup {i \in 1..Len(syn) : syn[i].key = ColumnKey(table, name)}
           IN IF InList(name, get_column_names(schema, table)) THEN sql_found = StrVal(name)
              ELSE IF hits # {} THEN sql_found = StrVal(AfterDot(syn[Least(hits)].key))
              ELSE sql_found = FuzzyExpected(name, ColumnCandidates(schema, table))

\* a lookup at the fuzzy stage with two closest candidates, answered with the
\* earlier one
C26_Witness ==
    /\ FuzzyStage
    /\ sql_input.call = "find_table"
    /\ Cardinality(Closest(LowerChars(sql_input.args[1]), TableCandidates(schema))) >= 2
    /\ sql_found # None
    /\ sql_found = FuzzyExpected(LowerChars(sql_input.args[1]), TableCandidates(schema))

\* the command in hand was parsed as insert or update
GapCommand == sql_intent # None /\ sql_intent.action \in {"insert", "update"}

\* C27: for a command parsed as insert or update the text translate returns is never
\* handed to the connection (no cursor.execute runs on it, so none has answered with
\* rows or with an exception), and the command ends in a failed result.
C27_MarkerNeverExecuted ==
    GapCommand =>
        /\ sql_query # None =>
               sql_query \in {StrVal(NotImplemented(<<"I", "N", "S", "E", "R", "T">>)),
                              StrVal(NotImplemented(<<"U", "P", "D", "A", "T", "E">>))}
        /\ cursor = None
        /\ caught # None => caught.at # "execute"
        /\ spc = "result" => ~sql_found.success

\* parse was called on the text typed, and the state is the one parse left
AfterParse ==
    /\ sql_input # None
    /\ sql_input.call = "parse"
    /\ spc = "parsed" \/ (spc = "raised" /\ sql_intent = None)

\* the text parse was called on, as parse reads it
TypedText == LowerChars(sql_input.args[1])

\* the limit patterns that match the text, by their place in limit_patterns
LimitPhrasings(text) ==
    {k \in 1..Len(LimitPatterns) : Search(LimitPatterns[k].pattern, text).found}

\* C28: when nothing in the text resolves to a table of the catalog, a select or
\* delete command still passes parse and translate without an exception (the texts
\* with a limit phrasing are left to C29).
C28_UnresolvedNamesDegrade ==
    (/\ sql_input # None
     /\ sql_input.call = "parse"
     /\ detect_action(TypedText) \in {"select", "delete"}
     /\ detect_tables(schema, TypedText) = <<>>
     /\ LimitPhrasings(TypedText) = {})
    => spc # "raised"

\* the number a match captured: the group that took part and consists of digits
NumberOf(m) ==
    LET digits == {g \in DOMAIN m.caps : m.caps[g].set /\ IsDigits(m.caps[g].s)}
    IN IntVal(IntOfDigits(m.caps[CHOOSE g \in digits : TRUE].s))

\* C29: parse of a select command with a limit phrasing returns, and limit is the
\* number of the first pattern of limit_patterns that matches; without a phrasing
\* limit is None.
C29_LimitOfFirstPhrasing ==
    (AfterParse /\ detect_action(TypedText) = "select") =>
        /\ spc = "parsed"
        /\ sql_intent.limit =
               IF LimitPhrasings(TypedText) = {} THEN None
               ELSE NumberOf(Search(LimitPatterns[Least(LimitPhrasings(TypedText))].pattern,
                                    TypedText))

\* C30: the action of the query dict parse returns is one translate handles, and
\* translate does not raise its unsupported-action error on it.
C30_ParsedActionIsTranslatable ==
    (sql_input # None /\ sql_input.call = "parse" /\ sql_intent # None) =>
        /\ sql_intent.action \in {"select", "insert", "update", "delete"}
        /\ spc = "raised" =>
               sql_raised.arg # "Nieobslugiwana akcja SQL: " \o sql_intent.action

====
